---- MODULE Spec2Model ----
(***************************************************************************)
(* A model of stextools' hub index: the Hub Registry (MathHub), its        *)
(* archives (Repository), the per-document DocInfo cache (STeXDocument),   *)
(* the parallel bulk load, and the extraction engine that turns a parsed   *)
(* document tree into a DocInfo.                                           *)
(*                                                                         *)
(* Objects are records.  Two records denote the same Python object iff     *)
(* they agree on their path and their id: a newly constructed object gets  *)
(* the smallest id no live object of the same path carries in the state    *)
(* the constructing step starts from.                                      *)
(***************************************************************************)
EXTENDS Integers, Sequences, FiniteSets, TLC

VARIABLES
    diskDirs,        \* the repository roots (directories holding .git) on disk
    diskFiles,       \* <<dir, rel>> -> <<>> (no file) or <<[mtime, ver]>>
    now,             \* the file system's clock: one tick per file-system event
    fsLeft,          \* the file-system events the environment still performs
    archive_lookup,  \* MathHub.archive_lookup, an insertion-ordered dict
    bulk,            \* the state of a running load_all_doc_infos call
    ret,             \* the outcome of the last completed operation of the main process
    document,        \* create_doc_info: <<dir, rel>> of the document under analysis
    nodes,           \* the nodes of its parsed tree visited so far, in document order
    pos,             \* the character offset the next node starts at
    frames,          \* the active invocations of process(), innermost last
    doc_info,        \* the DocInfo under construction
    module_infos,    \* the ModuleInfo objects created so far, in creation order
    pc,              \* "idle", "walking", "done", or the exception raised
    analysed         \* the outcome of the preceding create_doc_info call on the document

hubVars == <<diskDirs, diskFiles, now, fsLeft, archive_lookup, bulk, ret>>

walkVars == <<document, nodes, pos, frames, doc_info, module_infos, pc, analysed>>

vars == <<hubVars, walkVars>>

----------------------------------------------------------------------------
(* Optional values: Python's None and a present value.                     *)

None == <<>>

Some(x) == <<x>>

IsSome(o) == o # <<>>

The(o) == o[1]

----------------------------------------------------------------------------
(* Bounds of the model.                                                    *)

\* the number of file-system events (creations, deletions, edits, touches,
\* clones) the environment performs in one run of Spec
MaxFsEvents == 1

\* the number of repository roots that appear or disappear in one run of
\* SpecRegistry
MaxDirEvents == 2

\* multiprocessing.Pool(12): the number of workers, scaled down
NumWorkers == 2

\* pool.imap(..., chunksize=30): the size of a batch, scaled down
ChunkSize == 2

----------------------------------------------------------------------------
(* The hub on disk.  Three repository roots can exist under $MATHHUB:      *)
(*   a  with a manifest  id: A, format: stex                               *)
(*   b  with a manifest  format: stex  (no id)                             *)
(*   c  without a manifest                                                 *)
(* The manifests themselves are not edited during a run.                   *)

Dirs == {"a", "b", "c"}

\* the order in which mathhub.glob('**/.git') reports the roots
DirOrder == <<"a", "b", "c">>

\* Repository._relevant_file_iterate: the source tree, then the lib tree
RelOrder == <<"source/f.tex", "lib/g.tex">>

RelsOf(d) == IF d = "a" THEN {"source/f.tex", "lib/g.tex"} ELSE {"source/f.tex"}

Paths == {p \in Dirs \X {"source/f.tex", "lib/g.tex"} : p[2] \in RelsOf(p[1])}

\* further files a source tree can hold: a file without a suffix, a plain
\* document and two language-tagged documents of the same base name
LangRels == {"source/s", "source/s.tex", "source/s.de.tex", "source/s.en.tex"}

LangDir == "b"

\* every file the disk can hold
DiskPaths == Paths \cup ({LangDir} \X LangRels)

\* the .tex files in the order Path.glob('**/*.tex') reports them, the
\* source tree before the lib tree
FileOrder == <<"source/f.tex", "source/s.tex", "source/s.de.tex", "source/s.en.tex", "lib/g.tex">>

HasManifest(d) == d \in {"a", "b"}

ManifestId(d) == IF d = "a" THEN Some("A") ELSE None

ManifestFormat(d) == IF d \in {"a", "b"} THEN Some("stex") ELSE None

----------------------------------------------------------------------------
(* Helpers on sequences and insertion-ordered dicts.                       *)

Range(s) == {s[i] : i \in DOMAIN s}

\* a function on 1..n as a tuple, so that Head, Tail, SubSeq and SelectSeq
\* see the elements that a later EXCEPT has replaced
SeqOf(f) == SubSeq(f, 1, Len(f))

MapSeq(s, F(_)) == SeqOf([i \in DOMAIN s |-> F(s[i])])

\* the smallest natural number not in S
MinUnused(S) == CHOOSE i \in 0..Cardinality(S) : i \notin S /\ \A j \in 0..(i - 1) : j \in S

Keys(lk) == {lk[i].name : i \in DOMAIN lk}

\* dict[key]
IndexOf(lk, n) == CHOOSE i \in DOMAIN lk : lk[i].name = n

DocKeys(docs) == {docs[i].rel : i \in DOMAIN docs}

DocIndex(docs, r) == CHOOSE i \in DOMAIN docs : docs[i].rel = r

\* del dict[key]: the other entries keep their order
RemoveAt(s, k) == SeqOf([i \in 1..(Len(s) - 1) |-> IF i < k THEN s[i] ELSE s[i + 1]])

----------------------------------------------------------------------------
(* Repository                                                              *)

\* Repository.get_archive_name, computed when the root is discovered:
\* the manifest's id, else the path relative to the hub root
ArchiveName(d) ==
    IF HasManifest(d) /\ IsSome(ManifestId(d)) THEN The(ManifestId(d)) ELSE d

Names == {ArchiveName(d) : d \in Dirs}

LiveRepoIds(lk, d) == {lk[i].id : i \in {j \in DOMAIN lk : lk[j].path = d}}

\* Repository(path) followed by its first get_archive_name(), which reads
\* (and caches) the manifest when there is one
Repository(lk, d) ==
    [name |-> ArchiveName(d), id |-> MinUnused(LiveRepoIds(lk, d)), path |-> d,
     manifest |-> HasManifest(d), stex |-> "unknown", docs |-> None, cache |-> {}]

\* Repository._relevant_file_iterate, as relative paths
RelevantFiles(d) ==
    SelectSeq(FileOrder,
              LAMBDA r : d \in diskDirs /\ <<d, r>> \in DiskPaths /\ IsSome(diskFiles[<<d, r>>]))

LiveDocIds(d, r) ==
    UNION {IF archive_lookup[i].path = d /\ IsSome(archive_lookup[i].docs)
           THEN {x.id : x \in {y \in Range(The(archive_lookup[i].docs)) : y.rel = r}}
           ELSE {} : i \in DOMAIN archive_lookup}

\* STeXDocument.__init__
STeXDocument(d, r) ==
    [rel |-> r, id |-> MinUnused(LiveDocIds(d, r)), info |-> None, dropped |-> None]

\* the staleness check discarding a DocInfo as old as the file
delete_doc_info_if_outdated_or_equal(d, doc) ==
    IF doc.info = None THEN doc
    ELSE IF The(diskFiles[<<d, doc.rel>>]).mtime >= The(doc.info).last_modified
         THEN [doc EXCEPT !.info = None, !.dropped = doc.info]
         ELSE doc

\* delete_doc_info_if_outdated with the comparison turned around
delete_doc_info_if_outdated_reversed(d, doc) ==
    IF doc.info = None THEN doc
    ELSE IF The(diskFiles[<<d, doc.rel>>]).mtime < The(doc.info).last_modified
         THEN [doc EXCEPT !.info = None, !.dropped = doc.info]
         ELSE doc

\* STeXDocument.delete_doc_info_if_outdated; `dropped` remembers the
\* discarded DocInfo so that a later result can be compared with it
delete_doc_info_if_outdated(d, doc) ==
    IF doc.info = None THEN doc
    ELSE IF The(diskFiles[<<d, doc.rel>>]).mtime > The(doc.info).last_modified
         THEN [doc EXCEPT !.info = None, !.dropped = doc.info]
         ELSE doc

\* Repository.update without its second loop: vanished files keep their keys
RepositoryUpdate_keeping(repo) ==
    LET r0 == [repo EXCEPT !.manifest = FALSE]
    IN  IF r0.docs = None THEN r0
        ELSE LET old == The(r0.docs)
                 files == RelevantFiles(repo.path)
                 added == SelectSeq(files, LAMBDA r : r \notin DocKeys(old))
             IN  [r0 EXCEPT !.docs = Some(old \o MapSeq(added, LAMBDA r : STeXDocument(repo.path, r)))]

\* Repository.update
RepositoryUpdate(repo) ==
    LET r0 == [repo EXCEPT !.manifest = FALSE]
    IN  IF r0.docs = None THEN r0
        ELSE LET old == The(r0.docs)
                 files == RelevantFiles(repo.path)
                 kept == SelectSeq(old, LAMBDA doc : doc.rel \in Range(files))
                 added == SelectSeq(files, LAMBDA r : r \notin DocKeys(old))
             IN  [r0 EXCEPT !.docs =
                     Some(MapSeq(kept, LAMBDA doc : delete_doc_info_if_outdated(repo.path, doc))
                          \o MapSeq(added, LAMBDA r : STeXDocument(repo.path, r)))]

\* Repository._ensure_stex_docs_loaded: an empty dict is falsy, so an
\* archive without documents is enumerated again
EnsureStexDocsLoaded(repo) ==
    IF IsSome(repo.docs) /\ The(repo.docs) # <<>> THEN repo
    ELSE [repo EXCEPT !.docs =
             Some(MapSeq(RelevantFiles(repo.path), LAMBDA r : STeXDocument(repo.path, r)))]

\* Repository.is_stex_archive (functools.cache per instance); get_manifest
\* raises FileNotFoundError when nothing is cached and no file is readable
IsStexArchive(repo) ==
    IF repo.stex # "unknown" THEN repo
    ELSE IF repo.manifest \/ (repo.path \in diskDirs /\ HasManifest(repo.path))
         THEN [repo EXCEPT !.manifest = TRUE,
                           !.stex = IF ManifestFormat(repo.path) = Some("stex")
                                    THEN "yes" ELSE "no"]
         ELSE [repo EXCEPT !.stex = "no"]

----------------------------------------------------------------------------
(* MathHub                                                                 *)

\* _get_mathhub_repos: the roots on disk, in glob order
MathhubRepos == SelectSeq(DirOrder, LAMBDA d : d \in diskDirs)

\* MathHub.update, first loop: a discovered root whose name is not yet a
\* key is registered (appended to the dict); the others are left alone
RECURSIVE RegisterNew(_, _)
RegisterNew(lk, ds) ==
    IF ds = <<>> THEN lk
    ELSE LET d == Head(ds)
         IN  IF ArchiveName(d) \in Keys(lk)
             THEN RegisterNew(lk, Tail(ds))
             ELSE RegisterNew(Append(lk, Repository(lk, d)), Tail(ds))

\* MathHub.update, second loop: iterating over the dict's values, an entry
\* that is still needed is updated; the first one that is not is deleted,
\* and asking the iterator for the next value then raises RuntimeError
\* ("dictionary changed size during iteration"), so the later entries are
\* neither updated nor deleted
RetireAndUpdate(lk, still_needed) ==
    LET gone == {i \in DOMAIN lk : lk[i].name \notin still_needed}
    IN  IF gone = {}
        THEN [lookup |-> MapSeq(lk, RepositoryUpdate), val |-> "ok"]
        ELSE LET k == CHOOSE i \in gone : \A j \in gone : i <= j
                 done == [i \in DOMAIN lk |->
                             IF i < k THEN RepositoryUpdate(lk[i]) ELSE lk[i]]
             IN  [lookup |-> RemoveAt(done, k), val |-> "RuntimeError"]

\* MathHub.update
UpdateResult(lk) ==
    RetireAndUpdate(RegisterNew(lk, MathhubRepos),
                    {ArchiveName(d) : d \in diskDirs})

Idle == [pc |-> "idle", documents |-> <<>>, chunks |-> <<>>, next |-> 0]

Ret(op, val, obj) == [op |-> op, val |-> val, obj |-> obj]

MathHubUpdate ==
    /\ bulk.pc = "idle"
    /\ LET r == UpdateResult(archive_lookup)
       IN  /\ archive_lookup' = r.lookup
           /\ ret' = Ret("update", r.val, None)
    /\ bulk' = Idle
    /\ UNCHANGED walkVars
    /\ UNCHANGED <<diskDirs, diskFiles, now, fsLeft>>

----------------------------------------------------------------------------
(* STeXDocument                                                            *)

LiveInfoIds(p) ==
    UNION {IF IsSome(archive_lookup[i].docs)
           THEN UNION {{The(o).id : o \in {x \in {doc.info, doc.dropped} :
                                              IsSome(x) /\ The(x).src = p}}
                       : doc \in Range(The(archive_lookup[i].docs))}
           ELSE {} : i \in DOMAIN archive_lookup}

\* DocInfo(last_modified), filled by the tree walk over the content read;
\* ver stands for the logical content extracted, src for the file read
DocInfo(p, mtime, ver) ==
    [id |-> MinUnused(LiveInfoIds(p)), last_modified |-> mtime, ver |-> ver, src |-> p]

\* STeXDocument.create_doc_info on a readable file
create_doc_info(p) ==
    DocInfo(p, The(diskFiles[p]).mtime, The(diskFiles[p]).ver)

\* STeXDocument.get_doc_info: the cached DocInfo, computed first if absent
\* (open() raises FileNotFoundError when the file is gone)
get_doc_info(d, doc) ==
    IF IsSome(doc.info) THEN [doc |-> doc, val |-> "ok"]
    ELSE IF IsSome(diskFiles[<<d, doc.rel>>])
         THEN [doc |-> [doc EXCEPT !.info = Some(create_doc_info(<<d, doc.rel>>))],
               val |-> "ok"]
         ELSE [doc |-> doc, val |-> "FileNotFoundError"]

\* a client's mh.get_archive(n).get_stex_doc(r).get_doc_info(mh)
AccessDocInfo(n, r) ==
    /\ bulk.pc = "idle"
    /\ n \in Keys(archive_lookup)
    /\ LET i == IndexOf(archive_lookup, n)
           repo == EnsureStexDocsLoaded(archive_lookup[i])
           docs == The(repo.docs)
       IN  IF r \notin DocKeys(docs)
           THEN /\ archive_lookup' = [archive_lookup EXCEPT ![i] = repo]
                /\ ret' = Ret("get_stex_doc", "None", None)
           ELSE LET j == DocIndex(docs, r)
                    g == get_doc_info(repo.path, docs[j])
                IN  /\ archive_lookup' =
                          [archive_lookup EXCEPT ![i] =
                              [repo EXCEPT !.docs = Some([docs EXCEPT ![j] = g.doc])]]
                    /\ ret' = Ret("get_doc_info", g.val, g.doc.info)
    /\ bulk' = Idle
    /\ UNCHANGED walkVars
    /\ UNCHANGED <<diskDirs, diskFiles, now, fsLeft>>

----------------------------------------------------------------------------
(* MathHub.load_all_doc_infos                                              *)

\* a bulk load that takes every registered archive for an stex archive
LoadStexArchives_unfiltered(lk) ==
    MapSeq(lk, LAMBDA repo : EnsureStexDocsLoaded([IsStexArchive(repo) EXCEPT !.stex = "yes"]))

\* iter_stex_archives / stex_doc_iter: every registered archive is asked
\* whether it is an stex archive, and the documents of those that are get
\* loaded
LoadStexArchives(lk) ==
    MapSeq(lk, LAMBDA repo : LET r1 == IsStexArchive(repo)
                             IN  IF r1.stex = "yes" THEN EnsureStexDocsLoaded(r1) ELSE r1)

\* doc_iter(): the documents of the stex archives, in dict order
RECURSIVE DocIter(_, _)
DocIter(lk, i) ==
    IF i > Len(lk) THEN <<>>
    ELSE (IF lk[i].stex = "yes"
          THEN MapSeq(The(lk[i].docs),
                      LAMBDA doc : [name |-> lk[i].name, path |-> lk[i].path,
                                    rel |-> doc.rel, cached |-> IsSome(doc.info)])
          ELSE <<>>) \o DocIter(lk, i + 1)

\* the filter of `documents` with its condition inverted
Documents_cached(lk) == SelectSeq(DocIter(lk, 1), LAMBDA x : x.cached)

\* documents = [doc for doc in doc_iter() if doc._doc_info is None]
Documents(lk) == SelectSeq(DocIter(lk, 1), LAMBDA x : ~x.cached)

\* imap's batches: batch c holds the tasks FirstOf(c) .. LastOf(c, n)
NumChunks(n) == (n + ChunkSize - 1) \div ChunkSize

FirstOf(c) == (c - 1) * ChunkSize + 1

LastOf(c, n) == IF c * ChunkSize < n THEN c * ChunkSize ELSE n

Queued(c) == [st |-> "queued", pos |-> FirstOf(c), phase |-> "read", cur |-> 0, res |-> <<>>]

\* the call up to the start of the pool
BulkStart ==
    /\ bulk.pc = "idle"
    /\ LET lk == LoadStexArchives(archive_lookup)
           documents == Documents(lk)
       IN  /\ archive_lookup' = lk
           /\ IF documents = <<>>
              THEN /\ bulk' = Idle
                   /\ ret' = Ret("load_all_doc_infos", "False", None)
              ELSE /\ bulk' = [pc |-> "running", documents |-> documents,
                               chunks |-> [c \in 1..NumChunks(Len(documents)) |-> Queued(c)],
                               next |-> 1]
                   /\ ret' = Ret("load_all_doc_infos", "running", None)
    /\ UNCHANGED walkVars
    /\ UNCHANGED <<diskDirs, diskFiles, now, fsLeft>>

Running(chunks) == {c \in DOMAIN chunks : chunks[c].st = "running"}

\* a worker may work on batch c: it already does, or c is the next batch
\* of the task queue and a worker is free
Workable(c) ==
    \/ bulk.chunks[c].st = "running"
    \/ /\ bulk.chunks[c].st = "queued"
       /\ \A b \in 1..(c - 1) : bulk.chunks[b].st # "queued"
       /\ Cardinality(Running(bulk.chunks)) < NumWorkers

TaskPath(i) == <<bulk.documents[i].path, bulk.documents[i].rel>>

\* _load_doc_info -> create_doc_info, line 222-223: the worker opens and
\* reads the file of its current task
WorkerRead(c) ==
    /\ bulk.pc = "running"
    /\ c \in DOMAIN bulk.chunks
    /\ Workable(c)
    /\ bulk.chunks[c].phase = "read"
    /\ LET ch == bulk.chunks[c]
           f == diskFiles[TaskPath(ch.pos)]
       IN  bulk' = [bulk EXCEPT !.chunks[c] =
                       IF IsSome(f)
                       THEN [ch EXCEPT !.st = "running", !.phase = "stat", !.cur = The(f).ver]
                       ELSE [ch EXCEPT !.st = "failed"]]
    /\ UNCHANGED walkVars
    /\ UNCHANGED <<diskDirs, diskFiles, now, fsLeft, archive_lookup, ret>>

\* the (i, doc_info) pair _load_doc_info returns
TaskResult(i, mtime, ver) ==
    [i |-> i, last_modified |-> mtime, ver |-> ver, src |-> TaskPath(i)]

\* create_doc_info, line 225 on: the worker stats the file, walks the tree
\* and returns the pair; the batch is done after its last task
WorkerStat(c) ==
    /\ bulk.pc = "running"
    /\ c \in DOMAIN bulk.chunks
    /\ bulk.chunks[c].st = "running"
    /\ bulk.chunks[c].phase = "stat"
    /\ LET ch == bulk.chunks[c]
           f == diskFiles[TaskPath(ch.pos)]
       IN  bulk' = [bulk EXCEPT !.chunks[c] =
                       IF IsSome(f)
                       THEN [ch EXCEPT !.res = Append(@, TaskResult(ch.pos, The(f).mtime, ch.cur)),
                                       !.pos = @ + 1, !.phase = "read",
                                       !.st = IF ch.pos = LastOf(c, Len(bulk.documents))
                                              THEN "done" ELSE "running"]
                       ELSE [ch EXCEPT !.st = "failed"]]
    /\ UNCHANGED walkVars
    /\ UNCHANGED <<diskDirs, diskFiles, now, fsLeft, archive_lookup, ret>>

\* the slot of a result taken one place off its index
SlotOf_shifted(documents, i) == documents[(i % Len(documents)) + 1]

\* documents[i]._doc_info = doc_info
SlotOf(documents, i) == documents[i]

SetDocInfo(lk, ref, info) ==
    LET a == IndexOf(lk, ref.name)
        docs == The(lk[a].docs)
        j == DocIndex(docs, ref.rel)
    IN  [lk EXCEPT ![a].docs = Some([docs EXCEPT ![j].info = Some(info)])]

\* the loop over a batch's results leaving after its first item
Commit_first_only(lk, documents, res) ==
    IF res = <<>> THEN lk
    ELSE SetDocInfo(lk, SlotOf(documents, Head(res).i),
                    DocInfo(Head(res).src, Head(res).last_modified, Head(res).ver))

RECURSIVE Commit(_, _, _)
Commit(lk, documents, res) ==
    IF res = <<>> THEN lk
    ELSE LET r == Head(res)
         IN  Commit(SetDocInfo(lk, SlotOf(documents, r.i),
                               DocInfo(r.src, r.last_modified, r.ver)),
                    documents, Tail(res))

\* the body of the loop over pool.imap, for the results of one batch
\* (Commit above); the loop itself: the batches arrive in submission order; the
\* results of a finished batch are written to their documents, a failed
\* batch re-raises the worker's exception in the main process
Deliver ==
    /\ bulk.pc = "running"
    /\ LET ch == bulk.chunks[bulk.next]
       IN  \/ /\ ch.st = "done"
              /\ archive_lookup' = Commit(archive_lookup, bulk.documents, ch.res)
              /\ IF bulk.next = Len(bulk.chunks)
                 THEN /\ bulk' = [Idle EXCEPT !.documents = bulk.documents]
                      /\ ret' = Ret("load_all_doc_infos", "True", None)
                 ELSE /\ bulk' = [bulk EXCEPT !.next = @ + 1]
                      /\ ret' = ret
           \/ /\ ch.st = "failed"
              /\ bulk' = [Idle EXCEPT !.documents = bulk.documents, !.next = bulk.next]
              /\ ret' = Ret("load_all_doc_infos", "FileNotFoundError", None)
              /\ archive_lookup' = archive_lookup
    /\ UNCHANGED walkVars
    /\ UNCHANGED <<diskDirs, diskFiles, now, fsLeft>>

----------------------------------------------------------------------------
(* The environment: other processes changing the hub on disk.              *)

File(mtime, ver) == Some([mtime |-> mtime, ver |-> ver])

\* touch: the modification time moves forward, the content stays
TouchFile(p) ==
    /\ fsLeft > 0
    /\ IsSome(diskFiles[p])
    /\ now' = now + 1
    /\ fsLeft' = fsLeft - 1
    /\ diskFiles' = [diskFiles EXCEPT ![p] = File(The(@).mtime + 1, The(@).ver)]
    /\ UNCHANGED walkVars
    /\ UNCHANGED <<diskDirs, archive_lookup, bulk, ret>>

\* an edit: new content, new modification time
ModifyFile(p) ==
    /\ fsLeft > 0
    /\ IsSome(diskFiles[p])
    /\ now' = now + 1
    /\ fsLeft' = fsLeft - 1
    /\ diskFiles' = [diskFiles EXCEPT ![p] = File(The(@).mtime + 1, The(@).ver + 1)]
    /\ UNCHANGED walkVars
    /\ UNCHANGED <<diskDirs, archive_lookup, bulk, ret>>

CreateFile(p) ==
    /\ fsLeft > 0
    /\ p[1] \in diskDirs
    /\ diskFiles[p] = None
    /\ now' = now + 1
    /\ fsLeft' = fsLeft - 1
    /\ diskFiles' = [diskFiles EXCEPT ![p] = File(now + 1, 0)]
    /\ UNCHANGED walkVars
    /\ UNCHANGED <<diskDirs, archive_lookup, bulk, ret>>

DeleteFile(p) ==
    /\ fsLeft > 0
    /\ IsSome(diskFiles[p])
    /\ now' = now + 1
    /\ fsLeft' = fsLeft - 1
    /\ diskFiles' = [diskFiles EXCEPT ![p] = None]
    /\ UNCHANGED walkVars
    /\ UNCHANGED <<diskDirs, archive_lookup, bulk, ret>>

\* a repository root disappears, with everything in it
RemoveDir(d) ==
    /\ fsLeft > 0
    /\ d \in diskDirs
    /\ now' = now + 1
    /\ fsLeft' = fsLeft - 1
    /\ diskDirs' = diskDirs \ {d}
    /\ diskFiles' = [p \in DiskPaths |-> IF p[1] = d THEN None ELSE diskFiles[p]]
    /\ UNCHANGED walkVars
    /\ UNCHANGED <<archive_lookup, bulk, ret>>

\* a repository root appears (a clone), with its files
CloneDir(d) ==
    /\ fsLeft > 0
    /\ d \notin diskDirs
    /\ now' = now + 1
    /\ fsLeft' = fsLeft - 1
    /\ diskDirs' = diskDirs \cup {d}
    /\ diskFiles' = [p \in DiskPaths |->
                        IF p[1] = d /\ p \in Paths THEN File(now + 1, 0) ELSE diskFiles[p]]
    /\ UNCHANGED walkVars
    /\ UNCHANGED <<archive_lookup, bulk, ret>>

\* no analysis is being traced
NoWalk ==
    /\ document = None
    /\ nodes = <<>>
    /\ pos = 0
    /\ frames = <<>>
    /\ doc_info = None
    /\ module_infos = <<>>
    /\ pc = "idle"
    /\ analysed = None

----------------------------------------------------------------------------
(* The hub's specification.                                                *)

\* MathHub.__init__: an empty registry, then update() over the hub as it
\* is on disk at that moment: the full hub, or a hub without root c and
\* without a's lib file
Init ==
    /\ diskDirs \in {Dirs, {"a", "b"}}
    /\ diskFiles = [p \in DiskPaths |->
                       IF p \in Paths /\ p[1] \in diskDirs /\ (diskDirs = Dirs \/ p[2] = "source/f.tex")
                       THEN File(0, 0) ELSE None]
    /\ now = 0
    /\ fsLeft = MaxFsEvents
    /\ archive_lookup = UpdateResult(<<>>).lookup
    /\ bulk = Idle
    /\ ret = Ret("init", "ok", None)
    /\ NoWalk

Next ==
    \/ MathHubUpdate
    \/ \E n \in Names, r \in Range(RelOrder) : AccessDocInfo(n, r)
    \/ BulkStart
    \/ \E c \in 1..NumChunks(Cardinality(Paths)) : WorkerRead(c)
    \/ \E c \in 1..NumChunks(Cardinality(Paths)) : WorkerStat(c)
    \/ Deliver
    \/ \E p \in Paths : TouchFile(p)
    \/ \E p \in Paths : ModifyFile(p)
    \/ \E p \in Paths : CreateFile(p)
    \/ \E p \in Paths : DeleteFile(p)
    \/ \E d \in Dirs : RemoveDir(d)
    \/ \E d \in Dirs : CloneDir(d)

Spec == Init /\ [][Next]_vars

----------------------------------------------------------------------------
(* The cache without bulk loads: refreshes and accesses by the main        *)
(* process, between the environment's changes to the disk.                 *)

NextCache ==
    \/ MathHubUpdate
    \/ \E n \in Names, r \in Range(RelOrder) : AccessDocInfo(n, r)
    \/ \E p \in Paths : TouchFile(p)
    \/ \E p \in Paths : ModifyFile(p)
    \/ \E p \in Paths : CreateFile(p)
    \/ \E p \in Paths : DeleteFile(p)
    \/ \E d \in Dirs : RemoveDir(d)
    \/ \E d \in Dirs : CloneDir(d)

SpecCache == Init /\ [][NextCache]_vars

----------------------------------------------------------------------------
(* The registry under repository roots that come and go: any set of roots  *)
(* at construction, then clones and removals between the refreshes.        *)

InitRegistry ==
    /\ diskDirs \in SUBSET Dirs
    /\ diskFiles = [p \in DiskPaths |-> IF p \in Paths /\ p[1] \in diskDirs THEN File(0, 0) ELSE None]
    /\ now = 0
    /\ fsLeft = MaxDirEvents
    /\ archive_lookup = UpdateResult(<<>>).lookup
    /\ bulk = Idle
    /\ ret = Ret("init", "ok", None)
    /\ NoWalk

NextRegistry ==
    \/ MathHubUpdate
    \/ \E n \in Names, r \in Range(RelOrder) : AccessDocInfo(n, r)
    \/ \E d \in Dirs : RemoveDir(d)
    \/ \E d \in Dirs : CloneDir(d)

SpecRegistry == InitRegistry /\ [][NextRegistry]_vars

----------------------------------------------------------------------------
(* Views of the registry used by the properties.                           *)

\* the document registered under archive n and key r, if any
DocAt(lk, n, r) ==
    IF n \in Keys(lk) /\ IsSome(lk[IndexOf(lk, n)].docs)
                      /\ r \in DocKeys(The(lk[IndexOf(lk, n)].docs))
    THEN Some(LET docs == The(lk[IndexOf(lk, n)].docs) IN docs[DocIndex(docs, r)])
    ELSE None

\* the document a bulk-load task refers to
TaskDoc(lk, ref) == The(DocAt(lk, ref.name, ref.rel))

\* every (root, document) pair of the registry
AllDocs(lk) ==
    UNION {IF IsSome(lk[i].docs)
           THEN {<<lk[i].path, doc>> : doc \in Range(The(lk[i].docs))}
           ELSE {} : i \in DOMAIN lk}

Stale(d, doc) ==
    /\ IsSome(doc.info)
    /\ IsSome(diskFiles[<<d, doc.rel>>])
    /\ The(diskFiles[<<d, doc.rel>>]).mtime > The(doc.info).last_modified

----------------------------------------------------------------------------
(* C1, as claimed: a doc_info() access to a document whose cached DocInfo  *)
(* is older than the file's modification time (content unchanged) returns  *)
(* a new DocInfo object with the same logical content, not the cached one. *)
C1_StaleAccessRecomputes ==
    [][\A n \in Names, r \in Range(RelOrder) :
          LET o == DocAt(archive_lookup, n, r)
          IN  (/\ ret'.op = "get_doc_info"
               /\ IsSome(o)
               /\ AccessDocInfo(n, r)
               /\ Stale(archive_lookup[IndexOf(archive_lookup, n)].path, The(o))
               /\ The(diskFiles[<<archive_lookup[IndexOf(archive_lookup, n)].path, r>>]).ver
                     = The(The(o).info).ver)
              => /\ IsSome(ret'.obj)
                 /\ ret'.obj # The(o).info
                 /\ The(ret'.obj).ver = The(The(o).info).ver]_vars

(* C1, amended: doc_info() never looks at the modification time, so with a *)
(* cached DocInfo it returns that very object; a completed registry        *)
(* refresh leaves no cached DocInfo older than its file (the staleness     *)
(* check of Repository.update discards it); and the first doc_info() after *)
(* the discard returns and caches a new DocInfo object, stamped with the   *)
(* file's modification time and, the content being unchanged, with the     *)
(* same logical content as the discarded one.                              *)
C1_RecomputedAfterInvalidation ==
    [][/\ \A n \in Names, r \in Range(RelOrder) :
             LET o == DocAt(archive_lookup, n, r)
                 d == archive_lookup[IndexOf(archive_lookup, n)].path
                 f == diskFiles[<<d, r>>]
             IN  (ret'.op = "get_doc_info" /\ IsSome(o) /\ AccessDocInfo(n, r)) =>
                    /\ IsSome(The(o).info) => ret'.obj = The(o).info
                    /\ (The(o).info = None /\ IsSome(The(o).dropped) /\ IsSome(f)) =>
                          /\ IsSome(ret'.obj)
                          /\ DocAt(archive_lookup', n, r) # None
                          /\ The(DocAt(archive_lookup', n, r)).info = ret'.obj
                          /\ The(ret'.obj).id # The(The(o).dropped).id
                          /\ The(ret'.obj).last_modified = The(f).mtime
                          /\ (The(f).ver = The(The(o).dropped).ver
                                 => The(ret'.obj).ver = The(The(o).dropped).ver)
       /\ (ret'.op = "update" /\ ret'.val = "ok" /\ MathHubUpdate) =>
             \A x \in AllDocs(archive_lookup') : ~Stale(x[1], x[2])]_vars

\* a touched file's DocInfo was discarded by a refresh and recomputed by
\* the next access: a new object with the same content and a later stamp
C1_Witness ==
    /\ ret.op = "get_doc_info"
    /\ IsSome(ret.obj)
    /\ \E x \in AllDocs(archive_lookup) :
          /\ x[2].info = ret.obj
          /\ IsSome(x[2].dropped)
          /\ The(x[2].dropped).id # The(ret.obj).id
          /\ The(x[2].dropped).ver = The(ret.obj).ver
          /\ The(x[2].dropped).last_modified < The(ret.obj).last_modified

(* C2, as claimed: every refresh completes without error, and leaves the   *)
(* registry's keys equal to the names of the roots on disk, every survivor *)
(* still mapped to the Archive object it had before.                       *)
C2_RefreshTracksDisk ==
    [][MathHubUpdate =>
          /\ ret'.val = "ok"
          /\ Keys(archive_lookup') = {ArchiveName(d) : d \in diskDirs}
          /\ \A i \in DOMAIN archive_lookup :
                archive_lookup[i].path \in diskDirs =>
                   \E j \in DOMAIN archive_lookup' :
                      /\ archive_lookup'[j].name = archive_lookup[i].name
                      /\ archive_lookup'[j].path = archive_lookup[i].path
                      /\ archive_lookup'[j].id = archive_lookup[i].id]_vars


\* load_all_doc_infos has returned or raised, and nothing ran since
BulkOutcome(v) == ret.op = "load_all_doc_infos" /\ ret.val = v

\* every document of every archive flagged as an stex archive is cached
AllStexCached ==
    \A i \in DOMAIN archive_lookup :
       archive_lookup[i].stex = "yes" =>
          /\ IsSome(archive_lookup[i].docs)
          /\ \A doc \in Range(The(archive_lookup[i].docs)) : IsSome(doc.info)

(* C3: when load_all_doc_infos returns, every document of every archive    *)
(* flagged as an stex archive has a cached DocInfo; it returns False       *)
(* exactly when it found no uncached document (and then started no         *)
(* analysis), and True otherwise.                                          *)
C3_BulkLoadCachesAll ==
    /\ BulkOutcome("False") => (bulk = Idle /\ AllStexCached)
    /\ BulkOutcome("True") => (bulk.documents # <<>> /\ bulk.pc = "idle" /\ AllStexCached)
    /\ BulkOutcome("running") =>
          /\ bulk.pc = "running"
          /\ bulk.documents # <<>>
          /\ \A x \in AllDocs(archive_lookup) :
                (x[2].info = None /\ \E i \in DOMAIN archive_lookup :
                                        /\ archive_lookup[i].path = x[1]
                                        /\ archive_lookup[i].stex = "yes")
                   => \E k \in DOMAIN bulk.documents :
                         /\ bulk.documents[k].path = x[1]
                         /\ bulk.documents[k].rel = x[2].rel

\* a bulk load over two batches has returned True
C3_Witness ==
    /\ BulkOutcome("True")
    /\ Len(bulk.documents) > ChunkSize
    /\ \A k \in DOMAIN bulk.documents : IsSome(TaskDoc(archive_lookup, bulk.documents[k]).info)

(* C4, as claimed: when a worker fails, no cache slot has been written by  *)
(* the call: every document that was uncached at its start still is.       *)
C4_NoPartialCommit ==
    BulkOutcome("FileNotFoundError") =>
       \A k \in DOMAIN bulk.documents : TaskDoc(archive_lookup, bulk.documents[k]).info = None

(* C4, amended: a worker's failure aborts the call with the worker's       *)
(* exception, but the batches delivered before the failing batch stay      *)
(* committed: exactly the documents of the earlier batches hold their      *)
(* DocInfo, and no document of the failing batch or of a later one has     *)
(* been written.                                                           *)
C4_AbortKeepsEarlierBatches ==
    BulkOutcome("FileNotFoundError") =>
       /\ bulk.pc = "idle"
       /\ bulk.next \in 1..NumChunks(Len(bulk.documents))
       /\ \A k \in DOMAIN bulk.documents :
             LET doc == TaskDoc(archive_lookup, bulk.documents[k])
             IN  IF k < FirstOf(bulk.next)
                 THEN IsSome(doc.info) /\ The(doc.info).src = <<bulk.documents[k].path, doc.rel>>
                 ELSE doc.info = None

\* the second batch failed after the first had been written
C4_Witness ==
    /\ BulkOutcome("FileNotFoundError")
    /\ bulk.next = 2
    /\ IsSome(TaskDoc(archive_lookup, bulk.documents[1]).info)
    /\ TaskDoc(archive_lookup, bulk.documents[Len(bulk.documents)]).info = None

(* C5: whatever the interleaving of the workers, each DocInfo sits in the  *)
(* slot of the document it was computed from: results in flight carry the  *)
(* index of their own task, and a written slot holds a DocInfo of its own  *)
(* document's file.                                                        *)
C5_ResultsMatchDocuments ==
    /\ \A x \in AllDocs(archive_lookup) :
          IsSome(x[2].info) => The(x[2].info).src = <<x[1], x[2].rel>>
    /\ \A c \in DOMAIN bulk.chunks : \A k \in DOMAIN bulk.chunks[c].res :
          LET r == bulk.chunks[c].res[k]
          IN  r.src = <<bulk.documents[r.i].path, bulk.documents[r.i].rel>>

\* the second batch finished while the first was still being worked on,
\* the first was then written, and its documents hold their own DocInfos
C5_Witness ==
    /\ bulk.pc = "running"
    /\ bulk.next = 2
    /\ bulk.chunks[2].st = "done"
    /\ bulk.documents[1] # bulk.documents[2]
    /\ \A k \in 1..2 :
          LET doc == TaskDoc(archive_lookup, bulk.documents[k])
          IN  IsSome(doc.info) /\ The(doc.info).src = <<bulk.documents[k].path, doc.rel>>

----------------------------------------------------------------------------
(* Python strings.  A string that the code takes apart is a sequence of    *)
(* pieces, each piece a separator character ("/", "?", ".", " ", "{", "}") *)
(* or a run of other characters; a string that is only stored or compared  *)
(* is the concatenation of its pieces.                                     *)

\* ''.join(pieces)
RECURSIVE Join(_)
Join(s) == IF s = <<>> THEN "" ELSE Head(s) \o Join(Tail(s))

\* the index of the first occurrence of sep in s, 0 if there is none
Find(s, sep) ==
    IF \E i \in DOMAIN s : s[i] = sep
    THEN CHOOSE i \in DOMAIN s : s[i] = sep /\ \A j \in 1..(i - 1) : s[j] # sep
    ELSE 0

\* str.split(sep)
RECURSIVE Split(_, _)
Split(s, sep) ==
    IF Find(s, sep) = 0 THEN <<s>>
    ELSE <<SubSeq(s, 1, Find(s, sep) - 1)>> \o Split(SubSeq(s, Find(s, sep) + 1, Len(s)), sep)

\* sep.join(parts)
RECURSIVE JoinWith(_, _)
JoinWith(parts, sep) ==
    IF parts = <<>> THEN <<>>
    ELSE IF Len(parts) = 1 THEN parts[1]
    ELSE parts[1] \o <<sep>> \o JoinWith(Tail(parts), sep)

\* str.partition(sep): the parts before and after the first sep
Partition(s, sep) ==
    IF Find(s, sep) = 0 THEN <<s, <<>>>>
    ELSE <<SubSeq(s, 1, Find(s, sep) - 1), SubSeq(s, Find(s, sep) + 1, Len(s))>>

\* str.strip()
RECURSIVE Strip(_)
Strip(s) ==
    IF s # <<>> /\ Head(s) = " " THEN Strip(Tail(s))
    ELSE IF s # <<>> /\ s[Len(s)] = " " THEN Strip(SubSeq(s, 1, Len(s) - 1))
    ELSE s

\* s[1:-1]
Inner(s) == SubSeq(s, 2, Len(s) - 1)

\* c.upper() for the letters symbols are spelled with
Upper(c) == CASE c = "x" -> "X" [] c = "y" -> "Y" [] OTHER -> c

\* the path of a document relative to its repository root, in pieces
RelPieces(rel) ==
    CASE rel = "source/f.tex" -> <<"source", "/", "f", ".", "tex">>
      [] rel = "lib/g.tex" -> <<"lib", "/", "g", ".", "tex">>
      [] rel = "source/s" -> <<"source", "/", "s">>
      [] rel = "source/s.tex" -> <<"source", "/", "s", ".", "tex">>
      [] rel = "source/s.de.tex" -> <<"source", "/", "s", ".", "de", ".", "tex">>
      [] rel = "source/s.en.tex" -> <<"source", "/", "s", ".", "en", ".", "tex">>

\* Path.name
BaseName(path) == LET split == Split(path, "/") IN split[Len(split)]

----------------------------------------------------------------------------
(* The records of stexdoc.py.  A ModuleInfo's submodules are the indices   *)
(* of the module_infos heap.                                               *)

\* a Dependency with its two ranges exchanged
Dependency_ranges_swapped(archive, file, module_name, is_lib, is_use, target_no_tex, valid_range, intro_range) ==
    [archive |-> archive, file |-> file, module_name |-> module_name,
     is_lib |-> is_lib, is_use |-> is_use, target_no_tex |-> target_no_tex,
     valid_range |-> intro_range, intro_range |-> valid_range]

Dependency(archive, file, module_name, is_lib, is_use, target_no_tex, valid_range, intro_range) ==
    [archive |-> archive, file |-> file, module_name |-> module_name,
     is_lib |-> is_lib, is_use |-> is_use, target_no_tex |-> target_no_tex,
     valid_range |-> valid_range, intro_range |-> intro_range]

Symbol(name) == [name |-> name, verbalizations |-> <<>>, decl_def |-> None]

ModuleInfo(name) == [name |-> name, dependencies |-> <<>>, symbols |-> <<>>, modules |-> <<>>]

NewDocInfo(last_modified) ==
    [last_modified |-> last_modified, dependencies |-> <<>>, modules |-> <<>>]

\* the concatenation of a sequence of sequences
RECURSIVE Flatten(_)
Flatten(ss) == IF ss = <<>> THEN <<>> ELSE Head(ss) \o Flatten(Tail(ss))

\* ModuleInfo.iter_modules: the module, then each submodule's modules
RECURSIVE ModuleIterModules(_, _)
ModuleIterModules(heap, m) ==
    <<m>> \o Flatten([i \in DOMAIN heap[m].modules |->
                         ModuleIterModules(heap, heap[m].modules[i])])

\* DocInfo.iter_modules
iter_modules(info, heap) ==
    Flatten([i \in DOMAIN info.modules |-> ModuleIterModules(heap, info.modules[i])])

\* DocInfo.get_module: the first module of iter_modules with that name
get_module(info, heap, name) ==
    LET ms == iter_modules(info, heap)
        hits == {i \in DOMAIN ms : heap[ms[i]].name = name}
    IN  IF hits = {} THEN None
        ELSE Some(ms[CHOOSE i \in hits : \A j \in hits : i <= j])

----------------------------------------------------------------------------
(* A node of the parsed tree (pylatexenc).  Its arguments are what the     *)
(* helpers of stextools.macro_arg_utils read from node.nodeargd:           *)
(*   opt       get_first_macro_arg_opt: the bracketed optional argument    *)
(*   keyvals   OptArgKeyVals: the key=value list of the optional argument  *)
(*   main      get_first_main_arg: the first mandatory argument            *)
(*   argnlist  the mandatory arguments as latex_verbatim(), braces kept    *)

Node(type, name, opt, keyvals, main, argnlist, p, len) ==
    [type |-> type, name |-> name, opt |-> opt, keyvals |-> keyvals, main |-> main,
     argnlist |-> argnlist, pos |-> p, len |-> len]

\* OptArgKeyVals.get_val
get_val(keyvals, key) ==
    IF \E i \in DOMAIN keyvals : keyvals[i][1] = key
    THEN Some(keyvals[CHOOSE i \in DOMAIN keyvals :
                         keyvals[i][1] = key /\ \A j \in 1..(i - 1) : keyvals[j][1] # key][2])
    ELSE None

\* a mandatory argument {s} as latex_verbatim() returns it
Braced(s) == <<"{">> \o s \o <<"}">>

\* (node.pos, node.pos + node.len)
Span(node) == <<node.pos, node.pos + node.len>>

----------------------------------------------------------------------------
(* Repository.normalize_tex_file_ref                                       *)

\* the regular files below repository root d, as paths in pieces
FilesUnder(d) ==
    {RelPieces(q[2]) : q \in {p \in DiskPaths : p[1] = d /\ IsSome(diskFiles[p])}}

\* the files that directory.glob(last + '.*.tex') reports, relative to the tree
GlobLang(d, directory, dir, last) ==
    LET base == IF dir = <<>> THEN <<>> ELSE dir \o <<"/">>
        Matches(name) ==
            /\ Find(name, "/") = 0
            /\ Len(name) >= Len(last) + 3
            /\ SubSeq(name, 1, Len(last) + 1) = last \o <<".">>
            /\ SubSeq(name, Len(name) - 1, Len(name)) = <<".", "tex">>
    IN  {SubSeq(f, 3, Len(f)) :
            f \in {g \in FilesUnder(d) :
                     /\ Len(g) > Len(base) + 2
                     /\ SubSeq(g, 1, Len(base) + 2) = <<directory, "/">> \o base
                     /\ Matches(SubSeq(g, Len(base) + 3, Len(g)))}}

\* the body with the first two tests exchanged: path + '.tex' before path
normalize_tex_file_ref_tex_first(repo, path, directory) ==
    LET split == Split(path, "/")
        options == GlobLang(repo.path, directory,
                            JoinWith(SubSeq(split, 1, Len(split) - 1), "/"), split[Len(split)])
    IN  IF (<<directory, "/">> \o path \o <<".", "tex">>) \in FilesUnder(repo.path)
        THEN {Some(path \o <<".", "tex">>)}
        ELSE IF (<<directory, "/">> \o path) \in FilesUnder(repo.path) THEN {Some(path)}
        ELSE IF options # {} THEN {Some(o) : o \in options}
        ELSE {None}

\* the values the body of normalize_tex_file_ref can return: the path as
\* given, the path with .tex appended, a file the glob reports (the order
\* of a glob's results is the file system's), or None
normalize_tex_file_ref(repo, path, directory) ==
    LET split == Split(path, "/")
        options == GlobLang(repo.path, directory,
                            JoinWith(SubSeq(split, 1, Len(split) - 1), "/"), split[Len(split)])
    IN  IF (<<directory, "/">> \o path) \in FilesUnder(repo.path) THEN {Some(path)}
        ELSE IF (<<directory, "/">> \o path \o <<".", "tex">>) \in FilesUnder(repo.path)
        THEN {Some(path \o <<".", "tex">>)}
        ELSE IF options # {} THEN {Some(o) : o \in options}
        ELSE {None}

\* the parameters normalize_tex_file_ref declares besides self
normalize_tex_file_ref_params == <<"path", "directory">>

\* a call archive.normalize_tex_file_ref(*args): more positional arguments
\* than the method declares make Python raise TypeError before the body
\* (or the lru_cache in front of it) computes anything
CallNormalize(repo, args) ==
    IF Len(args) > Len(normalize_tex_file_ref_params)
    THEN {[raised |-> "TypeError", value |-> None]}
    ELSE {[raised |-> "", value |-> v] :
             v \in normalize_tex_file_ref(repo, args[1],
                                          IF Len(args) > 1 THEN args[2] ELSE "source")}

\* a lookup that falls back on the first registered archive
get_archive_or_first(lk, archive_name) ==
    IF archive_name \in Keys(lk) THEN Some(lk[IndexOf(lk, archive_name)])
    ELSE IF lk # <<>> THEN Some(lk[1]) ELSE None

\* MathHub.get_archive
get_archive(lk, archive_name) ==
    IF archive_name \in Keys(lk) THEN Some(lk[IndexOf(lk, archive_name)]) ELSE None

----------------------------------------------------------------------------
(* DependencyProducer                                                      *)

DependencyProducer(macroname, references_module, opt_param_is_archive, archive_in_params, is_lib, is_use, target_no_tex) ==
    [macroname |-> macroname, references_module |-> references_module,
     opt_param_is_archive |-> opt_param_is_archive, archive_in_params |-> archive_in_params,
     is_lib |-> is_lib, is_use |-> is_use, target_no_tex |-> target_no_tex]

DEPENDENCY_PRODUCERS ==
    << DependencyProducer("usemodule", TRUE, TRUE, FALSE, FALSE, TRUE, FALSE),
       DependencyProducer("requiremodule", TRUE, TRUE, FALSE, FALSE, TRUE, FALSE),
       DependencyProducer("importmodule", TRUE, TRUE, FALSE, FALSE, FALSE, FALSE),
       DependencyProducer("inputref", FALSE, TRUE, FALSE, FALSE, FALSE, FALSE),
       DependencyProducer("mhinput", FALSE, TRUE, FALSE, FALSE, FALSE, FALSE),
       DependencyProducer("mhgraphics", FALSE, FALSE, TRUE, FALSE, FALSE, TRUE),
       DependencyProducer("cmhgraphics", FALSE, FALSE, TRUE, FALSE, FALSE, TRUE),
       DependencyProducer("mhtikzinput", FALSE, FALSE, TRUE, FALSE, FALSE, TRUE),
       DependencyProducer("cmhtikzinput", FALSE, FALSE, TRUE, FALSE, FALSE, TRUE),
       DependencyProducer("lstinputmhlisting", FALSE, FALSE, TRUE, FALSE, FALSE, TRUE),
       DependencyProducer("includeproblem", FALSE, FALSE, TRUE, FALSE, FALSE, FALSE),
       DependencyProducer("libinput", FALSE, TRUE, FALSE, TRUE, FALSE, FALSE),
       DependencyProducer("addmhbibresource", FALSE, FALSE, TRUE, TRUE, FALSE, TRUE) >>

DependencyMacroNames == {DEPENDENCY_PRODUCERS[i].macroname : i \in DOMAIN DEPENDENCY_PRODUCERS}

\* DEPENDENCY_PRODUCER_BY_MACRONAME[macroname]
DEPENDENCY_PRODUCER_BY_MACRONAME(macroname) ==
    DEPENDENCY_PRODUCERS[CHOOSE i \in DOMAIN DEPENDENCY_PRODUCERS :
                            DEPENDENCY_PRODUCERS[i].macroname = macroname]

\* produce, step 1: the archive the invocation names, if it names one
TargetArchive(dp, node) ==
    IF dp.opt_param_is_archive
    THEN IF IsSome(node.opt) /\ The(node.opt) # <<>> THEN Some(Strip(The(node.opt))) ELSE None
    ELSE IF dp.archive_in_params /\ IsSome(node.keyvals)
              /\ IsSome(get_val(The(node.keyvals), "archive"))
              /\ The(get_val(The(node.keyvals), "archive")) # <<>>
         THEN get_val(The(node.keyvals), "archive")
         ELSE None

\* target_archive or from_archive
ArchiveNameFor(target_archive, from_archive) ==
    IF IsSome(target_archive) /\ The(target_archive) # <<>>
    THEN Join(The(target_archive)) ELSE from_archive

\* the module a module reference names: the part after '?', else the last
\* segment of the path
ModuleNameOf(main_arg) ==
    IF Find(main_arg, "?") # 0 THEN Partition(main_arg, "?")[2]
    ELSE LET split == Split(main_arg, "/") IN split[Len(split)]

\* the path part of a module reference
PathOf(main_arg) == IF Find(main_arg, "?") # 0 THEN Partition(main_arg, "?")[1] ELSE main_arg

\* path_options, in the order the rule tries them
PathOptions(dp, target_archive, from_subdir, main_arg) ==
    LET path == PathOf(main_arg)
        module_name == ModuleNameOf(main_arg)
    IN  IF dp.references_module
        THEN (IF target_archive = None
              THEN <<from_subdir \o <<"/">> \o path,
                     from_subdir \o <<"/">> \o path \o <<"/">> \o module_name>>
              ELSE <<>>)
             \o <<path, path \o <<"/">> \o module_name>>
        ELSE (IF target_archive = None THEN <<from_subdir \o <<"/">> \o main_arg>> ELSE <<>>)
             \o <<main_arg>>

\* the for loop over path_options: the outcomes of trying them in order
RECURSIVE TryOptions(_, _, _, _)
TryOptions(archive, path_options, top_dir, lang) ==
    IF path_options = <<>> THEN {[raised |-> "", file |-> None]}
    ELSE UNION {IF r.raised # "" THEN {[raised |-> r.raised, file |-> None]}
                ELSE IF IsSome(r.value) THEN {[raised |-> "", file |-> r.value]}
                ELSE TryOptions(archive, Tail(path_options), top_dir, lang) :
                   r \in CallNormalize(archive, <<Head(path_options), top_dir, lang>>)}


\* an outcome of a call: the exception it raised ("" if none) and its value
Outcome(raised, value) == [raised |-> raised, value |-> value]

\* a rule that does not return early on a missing main argument
produce_without_main_check(dp, node, from_archive, from_subdir, lk, valid_range, lang) ==
    {Outcome("", Some(Dependency(from_archive, None, None, dp.is_lib, dp.is_use,
                                 dp.target_no_tex, valid_range, Span(node))))}

\* DependencyProducer.produce: the outcomes of one invocation
produce(dp, node, from_archive, from_subdir, lk, valid_range, lang) ==
    LET target_archive == TargetArchive(dp, node)
        main_arg == The(node.main)
        top_dir == IF dp.is_lib THEN "lib" ELSE "source"
        archive == get_archive(lk, ArchiveNameFor(target_archive, from_archive))
        intro_range == Span(node)
        module_name == IF dp.references_module THEN Some(Join(ModuleNameOf(main_arg))) ELSE None
        Dep(a, file, m) == Dependency(a, file, m, dp.is_lib, dp.is_use, dp.target_no_tex,
                                      valid_range, intro_range)
    IN  IF node.main = None THEN {Outcome("", None)}
        ELSE IF archive = None
        THEN {Outcome("", Some(Dep(ArchiveNameFor(target_archive, from_archive), None, None)))}
        ELSE IF ~dp.references_module /\ dp.target_no_tex
        THEN {Outcome("", Some(Dep(The(archive).name, None, None)))}
        ELSE {IF r.raised # "" THEN Outcome(r.raised, None)
              ELSE Outcome("", Some(Dep(The(archive).name,
                                        IF IsSome(r.file) THEN Some(Join(The(r.file))) ELSE None,
                                        module_name))) :
                 r \in TryOptions(The(archive),
                                  PathOptions(dp, target_archive, from_subdir, main_arg),
                                  top_dir, lang)}

----------------------------------------------------------------------------
(* STeXDocument.create_doc_info: the walk of process() over the parsed     *)
(* tree, one node per step.  A group or environment of length len at       *)
(* offset p holds its children at p + 1 .. p + len - 2.                    *)

\* an invocation process(nodes, parent_range, module_info); `end` is the
\* offset at which its node list ends
Frame(end, parent_range, module_info) ==
    [end |-> end, parent_range |-> parent_range, module_info |-> module_info]

Top == frames[Len(frames)]

Fits(len) == pc = "walking" /\ len >= 1 /\ pos + len <= Top.end

\* the current frame's loop continues with module_info bound to m
Rebind(m) == [frames EXCEPT ![Len(frames)].module_info = m]

\* '/'.join(self.get_rel_path().split('/')[1:])
FromSubdir(rel) == JoinWith(Tail(Split(RelPieces(rel), "/")), "/")

\* the language tag of the document's file name, '*' if it has none
Lang(rel) ==
    LET parts == Split(BaseName(RelPieces(rel)), ".")
    IN  IF Len(parts) > 2 THEN parts[Len(parts) - 1] ELSE <<"*">>

\* self.path.as_posix() for a file of repository root d
AsPosix(d, pieces) == "$MATHHUB/" \o d \o "/" \o Join(pieces)

\* lines 222-225 and 329: the file is read and parsed, the DocInfo gets the
\* file's modification time, and process() starts on the top-level nodes
StartAnalysis(p, len) ==
    /\ pc = "idle"
    /\ IsSome(diskFiles[p])
    /\ document' = p
    /\ nodes' = <<>>
    /\ pos' = 0
    /\ frames' = <<Frame(len, <<0, len>>, None)>>
    /\ doc_info' = NewDocInfo(The(diskFiles[p]).mtime)
    /\ module_infos' = <<>>
    /\ pc' = "walking"
    /\ UNCHANGED <<hubVars, analysed>>

\* a comment, chars, math or specials node: nothing is extracted
TextNode(type) ==
    /\ Fits(1)
    /\ nodes' = Append(nodes, Node(type, "", None, None, None, <<>>, pos, 1))
    /\ pos' = pos + 1
    /\ UNCHANGED <<document, frames, doc_info, module_infos, pc>>
    /\ UNCHANGED <<hubVars, analysed>>

\* a group: its children are processed with its span as the valid range
GroupNode(len) ==
    /\ len >= 2
    /\ Fits(len)
    /\ nodes' = Append(nodes, Node("group", "", None, None, None, <<>>, pos, len))
    /\ frames' = Append(frames, Frame(pos + len - 1, <<pos, pos + len>>, Top.module_info))
    /\ pos' = pos + 1
    /\ UNCHANGED <<document, doc_info, module_infos, pc>>
    /\ UNCHANGED <<hubVars, analysed>>

\* the end of a node list: process() returns to its caller, which goes on
\* with the node after the group or environment; the outermost invocation
\* returns to create_doc_info, which assigns doc_info to self._doc_info
Return ==
    /\ pc = "walking"
    /\ pos = Top.end
    /\ frames' = SubSeq(frames, 1, Len(frames) - 1)
    /\ IF Len(frames) = 1
       THEN pc' = "done" /\ pos' = pos
       ELSE pc' = pc /\ pos' = pos + 1
    /\ UNCHANGED <<document, nodes, doc_info, module_infos>>
    /\ UNCHANGED <<hubVars, analysed>>

\* a node of a type process() does not know: raise Exception
UnexpectedNode ==
    /\ Fits(1)
    /\ nodes' = Append(nodes, Node("unexpected", "", None, None, None, <<>>, pos, 1))
    /\ pc' = "Exception"
    /\ UNCHANGED <<document, pos, frames, doc_info, module_infos>>
    /\ UNCHANGED <<hubVars, analysed>>


\* the sig Dependency without the test that the sibling exists
SigDependency_unchecked(node, name) ==
    LET d == document[1]
        split == Split(RelPieces(document[2]), "/")
        name_parts == Split(split[Len(split)], ".")
        sig_val == The(get_val(The(node.keyvals), "sig"))
        with_name == JoinWith(SubSeq(split, 1, Len(split) - 1)
                                 \o <<JoinWith([name_parts EXCEPT ![Len(name_parts) - 1] = sig_val],
                                               ".")>>, "/")
    IN  Dependency(ArchiveName(d), Some(AsPosix(d, with_name)),
                   Some(name), FALSE, FALSE, FALSE, Span(node), Span(node))

\* the smodule environment's sig parameter (lines 248-264): the Dependency
\* on the sibling document of the sig language
SigDependency(node, name) ==
    LET d == document[1]
        file == RelPieces(document[2])
        split == Split(file, "/")
        name_parts == Split(split[Len(split)], ".")
        sig_val == The(get_val(The(node.keyvals), "sig"))
        with_name == JoinWith(SubSeq(split, 1, Len(split) - 1)
                                 \o <<JoinWith([name_parts EXCEPT ![Len(name_parts) - 1] = sig_val],
                                               ".")>>, "/")
        file_ok == Len(name_parts) > 2 /\ with_name \in FilesUnder(d)
    IN  Dependency(ArchiveName(d), IF file_ok THEN Some(AsPosix(d, with_name)) ELSE None,
                   Some(name), FALSE, FALSE, FALSE, Span(node), Span(node))

HasSig(node) ==
    /\ IsSome(node.keyvals)
    /\ IsSome(get_val(The(node.keyvals), "sig"))
    /\ The(get_val(The(node.keyvals), "sig")) # <<>>

\* the fully-qualified name of a new module (lines 236-238)
QualifiedName_local(heap, module_info, local) == local

QualifiedName(heap, module_info, local) ==
    IF IsSome(module_info) THEN heap[The(module_info)].name \o "/" \o local ELSE local

\* an environment (lines 233-265): an smodule creates a ModuleInfo, attaches
\* it to module_info's submodules or to the document, and rebinds
\* module_info; the children of any environment are processed with the
\* environment's span as the valid range and with module_info
EnvironmentNode(environmentname, arg, keyvals, len) ==
    LET node == Node("environment", environmentname, None, keyvals, None, <<Braced(arg)>>, pos, len)
        name == QualifiedName(module_infos, Top.module_info, Join(Inner(node.argnlist[1])))
        new == Len(module_infos) + 1
        new_module_info ==
            [ModuleInfo(name) EXCEPT
                !.dependencies = IF HasSig(node) THEN <<SigDependency(node, name)>> ELSE <<>>]
        module_info == IF environmentname = "smodule" THEN Some(new) ELSE Top.module_info
    IN  /\ len >= 2
        /\ Fits(len)
        /\ nodes' = Append(nodes, node)
        /\ IF environmentname = "smodule"
           THEN IF IsSome(Top.module_info)
                THEN /\ module_infos' =
                           Append([module_infos EXCEPT ![The(Top.module_info)].modules =
                                                          Append(@, new)], new_module_info)
                     /\ doc_info' = doc_info
                ELSE /\ module_infos' = Append(module_infos, new_module_info)
                     /\ doc_info' = [doc_info EXCEPT !.modules = Append(@, new)]
           ELSE UNCHANGED <<doc_info, module_infos>>
        /\ frames' = Append(Rebind(module_info), Frame(pos + len - 1, Span(node), module_info))
        /\ pos' = pos + 1
        /\ UNCHANGED <<document, pc>>
        /\ UNCHANGED <<hubVars, analysed>>

\* module_info.dependencies.append(dep), or doc_info.dependencies.append(dep)
AttachDependency(module_info, dep) ==
    IF IsSome(module_info)
    THEN /\ module_infos' = [module_infos EXCEPT ![The(module_info)].dependencies = Append(@, dep)]
         /\ doc_info' = doc_info
    ELSE /\ doc_info' = [doc_info EXCEPT !.dependencies = Append(@, dep)]
         /\ module_infos' = module_infos

\* a macro with a dependency producer (lines 268-286)
DependencyMacro(macroname, opt, keyvals, main) ==
    LET node == Node("macro", macroname, opt, keyvals, main, <<>>, pos, 1)
        dp == DEPENDENCY_PRODUCER_BY_MACRONAME(macroname)
    IN  /\ Fits(1)
        /\ nodes' = Append(nodes, node)
        /\ \E out \in produce(dp, node, ArchiveName(document[1]), FromSubdir(document[2]),
                              archive_lookup, Top.parent_range, Lang(document[2])) :
              IF out.raised # ""
              THEN /\ pc' = out.raised
                   /\ UNCHANGED <<pos, doc_info, module_infos>>
              ELSE /\ pc' = pc
                   /\ pos' = pos + 1
                   /\ IF IsSome(out.value)
                      THEN AttachDependency(Top.module_info, The(out.value))
                      ELSE UNCHANGED <<doc_info, module_infos>>
        /\ UNCHANGED <<document, frames>>
        /\ UNCHANGED <<hubVars, analysed>>


SymbolMacroNames == {"definiendum", "definame", "Definame", "symdef", "symdecl"}

\* the symbol a symbol macro names (lines 290-308)
SymbolOf(node) ==
    LET last == node.argnlist[Len(node.argnlist)]
    IN  CASE node.name = "definiendum" -> Join(Inner(node.argnlist[Len(node.argnlist) - 1]))
          [] node.name = "symdef" ->
                IF IsSome(node.keyvals) /\ IsSome(get_val(The(node.keyvals), "name"))
                THEN Join(The(get_val(The(node.keyvals), "name")))
                ELSE Join(Inner(node.argnlist[1]))
          [] OTHER -> Join(Inner(last))

\* its verbalization
VerbalizationOf(node) ==
    LET last == Inner(node.argnlist[Len(node.argnlist)])
    IN  CASE node.name = "definiendum" -> Join(last)
          [] node.name = "Definame" ->
                IF last # <<>> THEN Join(<<Upper(Head(last))>> \o Tail(last)) ELSE Join(last)
          [] OTHER -> SymbolOf(node)

\* whether a hit sets decl_def: only a declaring macro that creates the Symbol
SetsDeclDef(node, created) == created /\ node.name \in {"symdef", "symdecl"}

\* lines 314-325: find the module's Symbol of that name or create it, and
\* append the verbalization
AddSymbolHit(symbols, node) ==
    LET symbol == SymbolOf(node)
        found == {i \in DOMAIN symbols : symbols[i].name = symbol}
        i == IF found = {} THEN Len(symbols) + 1 ELSE CHOOSE k \in found : \A j \in found : k <= j
        symbol_obj == IF found = {} THEN Symbol(symbol) ELSE symbols[i]
        with_span == IF SetsDeclDef(node, found = {})
                     THEN [symbol_obj EXCEPT !.decl_def = Some(Span(node))] ELSE symbol_obj
        hit == [with_span EXCEPT
                   !.verbalizations = Append(@, <<VerbalizationOf(node), node.pos,
                                                  node.pos + node.len>>)]
    IN  IF found = {} THEN Append(symbols, hit) ELSE [symbols EXCEPT ![i] = hit]

\* a symbol macro (lines 287-325): without a current module nothing is kept
SymbolMacro(macroname, keyvals, argnlist) ==
    LET node == Node("macro", macroname, None, keyvals, None, argnlist, pos, 1)
    IN  /\ macroname \in SymbolMacroNames
        /\ Fits(1)
        /\ nodes' = Append(nodes, node)
        /\ pos' = pos + 1
        /\ IF IsSome(Top.module_info)
           THEN module_infos' = [module_infos EXCEPT ![The(Top.module_info)].symbols =
                                                        AddSymbolHit(@, node)]
           ELSE module_infos' = module_infos
        /\ UNCHANGED <<document, frames, doc_info, pc>>
        /\ UNCHANGED <<hubVars, analysed>>

\* any other macro: nothing is extracted
OtherMacro(macroname) ==
    /\ macroname \notin DependencyMacroNames \cup SymbolMacroNames
    /\ Fits(1)
    /\ nodes' = Append(nodes, Node("macro", macroname, None, None, None, <<>>, pos, 1))
    /\ pos' = pos + 1
    /\ UNCHANGED <<document, frames, doc_info, module_infos, pc>>
    /\ UNCHANGED <<hubVars, analysed>>

----------------------------------------------------------------------------
(* The extraction engine's specifications: one analysis of a document of   *)
(* a hub whose disk and registry stay as they are, the document's tree     *)
(* being any sequence of nodes over an alphabet that fills its length.     *)

\* the lengths of the analysed documents, in character offsets
MaxDocLen == 6

MaxAttachLen == 4

MaxSymLen == 4

MaxDepLen == 1

InitWalk ==
    /\ diskDirs = Dirs
    /\ diskFiles = [p \in DiskPaths |-> IF p \in Paths THEN File(0, 0) ELSE None]
    /\ now = 0
    /\ fsLeft = 0
    /\ archive_lookup = UpdateResult(<<>>).lookup
    /\ bulk = Idle
    /\ ret = Ret("init", "ok", None)
    /\ NoWalk

ModuleNames == {<<"A">>, <<"B">>, <<"C">>}

SigParams == {None, Some(<< <<"sig", <<"en">>>> >>)}

\* module environments, other environments and groups, nested at will
NextNesting ==
    \/ \E p \in {<<"a", "source/f.tex">>, <<"a", "lib/g.tex">>} : StartAnalysis(p, MaxDocLen)
    \/ TextNode("chars")
    \/ \E len \in 2..MaxDocLen : GroupNode(len)
    \/ \E arg \in ModuleNames, keyvals \in SigParams, len \in 2..MaxDocLen :
          EnvironmentNode("smodule", arg, keyvals, len)
    \/ \E len \in 2..MaxDocLen : EnvironmentNode("sdefinition", <<>>, None, len)
    \/ Return

SpecNesting == InitWalk /\ [][NextNesting]_vars

\* the symbols the macros of the symbol alphabet name
SymbolNames == {<<"x">>, <<"y">>}

\* the argument lists of the symbol macros: <<keyvals, argnlist>>
SymbolArgs(macroname) ==
    CASE macroname = "definiendum" ->
            {<<None, <<Braced(s), Braced(<<"v">>)>>>> : s \in SymbolNames}
      [] macroname = "symdef" ->
            {<<None, <<Braced(s)>>>> : s \in SymbolNames}
               \cup {<<Some(<< <<"name", <<"x">>>> >>), <<Braced(<<"m">>)>>>>}
      [] OTHER -> {<<None, <<Braced(s)>>>> : s \in SymbolNames}

\* symbol macros in and around module environments
NextSymbols ==
    \/ StartAnalysis(<<"a", "source/f.tex">>, MaxSymLen)
    \/ \E len \in 2..MaxSymLen : EnvironmentNode("smodule", <<"A">>, None, len)
    \/ \E macroname \in SymbolMacroNames : \E a \in SymbolArgs(macroname) :
          SymbolMacro(macroname, a[1], a[2])
    \/ Return

SpecSymbols == InitWalk /\ [][NextSymbols]_vars

----------------------------------------------------------------------------
(* Views of the document, read off the nodes and their spans alone.        *)

IsModuleEnv(n) == n.type = "environment" /\ n.name = "smodule"

ModuleEnvs == {j \in DOMAIN nodes : IsModuleEnv(nodes[j])}

\* node i lies inside node j
Inside(i, j) ==
    /\ nodes[j].pos < nodes[i].pos
    /\ nodes[i].pos + nodes[i].len <= nodes[j].pos + nodes[j].len

\* the innermost module environment that encloses node i, 0 if none does
EnclosingModule(i) ==
    LET encl == {j \in ModuleEnvs : Inside(i, j)}
    IN  IF encl = {} THEN 0 ELSE CHOOSE j \in encl : \A k \in encl : k <= j

\* the ModuleInfo created for the module environment nodes[j]: ModuleInfos
\* are created in document order
ModuleOfEnv(j) == Cardinality({k \in ModuleEnvs : k <= j})

\* the local name an smodule environment declares
LocalName(j) == Join(Inner(nodes[j].argnlist[1]))

\* the list a ModuleInfo is attached to: 0 for the document's top-level
\* list, else the ModuleInfo whose submodule list holds it
ParentsOf(k) ==
    {0 : x \in {i \in DOMAIN doc_info.modules : doc_info.modules[i] = k}}
       \cup {m \in DOMAIN module_infos : k \in Range(module_infos[m].modules)}

Analysing == pc \notin {"idle"}

----------------------------------------------------------------------------
\* the fully-qualified name the nesting of the environments gives module
\* environment j
RECURSIVE NestedName(_)
NestedName(j) ==
    IF EnclosingModule(j) = 0 THEN LocalName(j)
    ELSE NestedName(EnclosingModule(j)) \o "/" \o LocalName(j)

\* the module environments of the document are nested one inside the other
IsChain == \A j \in ModuleEnvs : ModuleOfEnv(EnclosingModule(j)) = ModuleOfEnv(j) - 1

(* C7: in a document whose module environments are nested one inside the  *)
(* other (A containing B containing C), the ModuleInfos carry the names    *)
(* "A", "A/B", "A/B/C", the outermost is the only entry of the document's  *)
(* top-level list, each other one is the only submodule of the one around  *)
(* it, and get_module of each name returns exactly that ModuleInfo.        *)
C7_NestedModules ==
    (Analysing /\ IsChain) =>
       /\ Len(module_infos) = Cardinality(ModuleEnvs)
       /\ doc_info.modules = IF ModuleEnvs = {} THEN <<>> ELSE <<1>>
       /\ \A j \in ModuleEnvs :
             LET k == ModuleOfEnv(j)
             IN  /\ module_infos[k].name = NestedName(j)
                 /\ ParentsOf(k) = {k - 1}
                 /\ module_infos[k].modules = IF k < Len(module_infos) THEN <<k + 1>> ELSE <<>>
                 /\ get_module(doc_info, module_infos, NestedName(j)) = Some(k)
                 /\ iter_modules(doc_info, module_infos) = [i \in 1..Len(module_infos) |-> i]

\* the analysis of A containing B containing C has completed
C7_Witness ==
    /\ pc = "done"
    /\ IsChain
    /\ Len(module_infos) = 3
    /\ module_infos[1].name = "A"
    /\ module_infos[2].name = "A/B"
    /\ module_infos[3].name = "A/B/C"
    /\ get_module(doc_info, module_infos, "A/B/C") = Some(3)

(* C8, as claimed: every ModuleInfo is attached to the ModuleInfo of the   *)
(* innermost module environment that encloses its own environment, and to  *)
(* the document's top-level list when none does; its name is its parent's  *)
(* name, "/" and its local name, or its local name alone at the top level. *)
C8_ParentIsEnclosingModule ==
    Analysing =>
       \A j \in ModuleEnvs :
          /\ ParentsOf(ModuleOfEnv(j)) = {ModuleOfEnv(EnclosingModule(j))}
          /\ module_infos[ModuleOfEnv(j)].name = NestedName(j)

----------------------------------------------------------------------------
IsSymbolMacro(n) == n.type = "macro" /\ n.name \in SymbolMacroNames

IsDependencyMacro(n) == n.type = "macro" /\ n.name \in DependencyMacroNames

\* the symbol macros directly inside module environment j that name symbol
\* s, in document order
HitsOf(j, s) ==
    SelectSeq([i \in DOMAIN nodes |-> i],
              LAMBDA i : IsSymbolMacro(nodes[i]) /\ EnclosingModule(i) = j
                            /\ SymbolOf(nodes[i]) = s)

\* of these, the declaring ones (symdef, symdecl)
DeclaringHitsOf(j, s) ==
    SelectSeq(HitsOf(j, s), LAMBDA i : nodes[i].name \in {"symdef", "symdecl"})

\* the document has one module environment, and every symbol macro is
\* inside it
OneModule ==
    /\ Cardinality(ModuleEnvs) = 1
    /\ \A i \in DOMAIN nodes : IsSymbolMacro(nodes[i]) => EnclosingModule(i) # 0

(* C6, as claimed: the symbol macros inside one module leave the module    *)
(* with one Symbol per distinct symbol name; the Symbol has one            *)
(* verbalization per hit, in document order; its declaration span is the   *)
(* span of the first declaring macro (symdef, symdecl) for that name, and  *)
(* is unset when no declaring macro names it.                              *)
C6_SymbolMerging ==
    (Analysing /\ OneModule) =>
       LET j == CHOOSE e \in ModuleEnvs : TRUE
           symbols == module_infos[1].symbols
       IN  /\ \A a, b \in DOMAIN symbols : symbols[a].name = symbols[b].name => a = b
           /\ {symbols[a].name : a \in DOMAIN symbols}
                 = {SymbolOf(nodes[i]) : i \in {k \in DOMAIN nodes : IsSymbolMacro(nodes[k])}}
           /\ \A a \in DOMAIN symbols :
                 LET hits == HitsOf(j, symbols[a].name)
                     decls == DeclaringHitsOf(j, symbols[a].name)
                 IN  /\ symbols[a].verbalizations =
                           [h \in DOMAIN hits |->
                               <<VerbalizationOf(nodes[hits[h]]), nodes[hits[h]].pos,
                                 nodes[hits[h]].pos + nodes[hits[h]].len>>]
                     /\ symbols[a].decl_def =
                           IF decls = <<>> THEN None ELSE Some(Span(nodes[decls[1]]))

----------------------------------------------------------------------------
\* dependency macros whose rule yields a Dependency without resolving a
\* file: a graphics inclusion, and a module of an archive that is not
\* installed
NextAttach ==
    \/ \E p \in Paths : StartAnalysis(p, MaxAttachLen)
    \/ TextNode("chars")
    \/ \E len \in 2..MaxAttachLen : GroupNode(len)
    \/ \E arg \in {<<"A">>, <<"B">>}, len \in 2..MaxAttachLen :
          EnvironmentNode("smodule", arg, None, len)
    \/ DependencyMacro("mhgraphics", None, None, Some(<<"img">>))
    \/ DependencyMacro("usemodule", Some(<<"zz">>), None, Some(<<"m">>))
    \/ SymbolMacro("symdecl", None, <<Braced(<<"x">>)>>)
    \/ SymbolMacro("definiendum", None, <<Braced(<<"x">>), Braced(<<"v">>)>>)
    \/ OtherMacro("textbf")
    \/ UnexpectedNode
    \/ Return

SpecAttach == InitWalk /\ [][NextAttach]_vars

\* the ModuleInfos holding a Dependency introduced by node i
DependencyHolders(i) ==
    {m \in DOMAIN module_infos :
        \E d \in DOMAIN module_infos[m].dependencies :
           module_infos[m].dependencies[d].intro_range = Span(nodes[i])}

\* the document root holds a Dependency introduced by node i
AtRoot(i) ==
    \E d \in DOMAIN doc_info.dependencies : doc_info.dependencies[d].intro_range = Span(nodes[i])

\* the ModuleInfos holding a verbalization from node i
VerbalizationHolders(i) ==
    {m \in DOMAIN module_infos :
        \E s \in DOMAIN module_infos[m].symbols :
           \E v \in DOMAIN module_infos[m].symbols[s].verbalizations :
              module_infos[m].symbols[s].verbalizations[v][2] = nodes[i].pos}

(* C9, as claimed: the Dependency of a dependency macro is held by the     *)
(* ModuleInfo of the innermost module environment enclosing the macro and  *)
(* by nothing else, or by the document root alone when no module           *)
(* environment encloses it; the hit of a symbol macro is held by the       *)
(* ModuleInfo of the innermost enclosing module environment alone, and by  *)
(* no ModuleInfo when no module environment encloses the macro.            *)
C9_AttachedToEnclosingModule ==
    Analysing =>
       \A i \in DOMAIN nodes :
          LET m == ModuleOfEnv(EnclosingModule(i))
          IN  /\ IsDependencyMacro(nodes[i]) =>
                    /\ DependencyHolders(i) = IF m = 0 THEN {} ELSE {m}
                    /\ AtRoot(i) <=> m = 0
              /\ IsSymbolMacro(nodes[i]) =>
                    VerbalizationHolders(i) = IF m = 0 THEN {} ELSE {m}

----------------------------------------------------------------------------
\* the arguments of the dependency macros: a bracketed archive (installed,
\* padded with a blank, or not installed), an archive= parameter, and a
\* main argument that names a file, a module below a directory, or nothing
OptArgs == {None, Some(<<"b">>), Some(<<" ", "c">>), Some(<<"zz">>)}

ArchiveParams == {None, Some(<< <<"archive", <<"b">>>> >>)}

MainArgs == {None, Some(<<"f">>), Some(<<"s", "/", "m", "?", "M">>)}

\* every dependency macro, with every combination of these arguments
NextDeps ==
    \/ \E p \in {<<"a", "source/f.tex">>, <<"b", "source/f.tex">>} : StartAnalysis(p, MaxDepLen)
    \/ \E macroname \in DependencyMacroNames, opt \in OptArgs, keyvals \in ArchiveParams,
          main \in MainArgs : DependencyMacro(macroname, opt, keyvals, main)
    \/ Return

SpecDeps == InitWalk /\ [][NextDeps]_vars

\* the analysis was aborted by an exception
Raised == pc \notin {"idle", "walking", "done"}

\* every Dependency the DocInfo holds, at the root or in a module
AllDependencies ==
    Range(doc_info.dependencies)
       \cup UNION {Range(module_infos[m].dependencies) : m \in DOMAIN module_infos}

\* the archive a dependency macro of this document refers to, if installed
TargetOf(n) ==
    get_archive(archive_lookup,
                ArchiveNameFor(TargetArchive(DEPENDENCY_PRODUCER_BY_MACRONAME(n.name), n),
                               ArchiveName(document[1])))

\* none of the candidate paths of the macro resolves to a file of the archive
NoneResolves(n) ==
    LET dp == DEPENDENCY_PRODUCER_BY_MACRONAME(n.name)
        path_options == PathOptions(dp, TargetArchive(dp, n), FromSubdir(document[2]), The(n.main))
    IN  \A o \in DOMAIN path_options :
           normalize_tex_file_ref(The(TargetOf(n)), path_options[o],
                                  IF dp.is_lib THEN "lib" ELSE "source") = {None}

(* C10, as claimed: a dependency macro with a main argument whose archive  *)
(* is installed never fails and always yields a Dependency; when none of   *)
(* its candidate files resolves, the Dependency names the archive, has no  *)
(* file, and, for a module-referencing rule, carries the module name.      *)
C10_BestEffortDependency ==
    Analysing =>
       \A i \in DOMAIN nodes :
          (IsDependencyMacro(nodes[i]) /\ IsSome(nodes[i].main) /\ IsSome(TargetOf(nodes[i]))) =>
             /\ ~(Raised /\ i = Len(nodes))
             /\ \E dep \in AllDependencies : dep.intro_range = Span(nodes[i])
             /\ NoneResolves(nodes[i]) =>
                   \A dep \in AllDependencies :
                      dep.intro_range = Span(nodes[i]) =>
                         /\ dep.archive = The(TargetOf(nodes[i])).name
                         /\ dep.file = None
                         /\ DEPENDENCY_PRODUCER_BY_MACRONAME(nodes[i].name).references_module
                               => dep.module_name = Some(Join(ModuleNameOf(The(nodes[i].main))))

----------------------------------------------------------------------------
\* the length of the documents with malformed dependency macros
MaxMalformedLen == 2

\* an archive override in the form the macro's rule reads it, or none
OverrideArgs(macroname) ==
    IF DEPENDENCY_PRODUCER_BY_MACRONAME(macroname).opt_param_is_archive
    THEN {<<None, None>>, <<Some(<<"b">>), None>>}
    ELSE {<<None, None>>, <<None, Some(<< <<"archive", <<"b">>>> >>)>>}

\* every dependency macro without its main argument, with and without an
\* archive override, among well-formed macros and module environments
NextMalformed ==
    \/ StartAnalysis(<<"a", "source/f.tex">>, MaxMalformedLen)
    \/ \E macroname \in DependencyMacroNames : \E a \in OverrideArgs(macroname) :
          DependencyMacro(macroname, a[1], a[2], None)
    \/ DependencyMacro("mhgraphics", None, None, Some(<<"img">>))
    \/ SymbolMacro("symdecl", None, <<Braced(<<"x">>)>>)
    \/ \E len \in 2..MaxMalformedLen : EnvironmentNode("smodule", <<"A">>, None, len)
    \/ Return

SpecMalformed == InitWalk /\ [][NextMalformed]_vars

\* a dependency macro without a main argument
IsMalformed(n) == IsDependencyMacro(n) /\ n.main = None

(* C11: the step of the walk over a dependency macro that has no main       *)
(* argument raises nothing and leaves the DocInfo, every ModuleInfo and the *)
(* walk's scopes as they are, so what is extracted is what the same nodes   *)
(* without the macro give; whatever the rule and the archive override, the  *)
(* DocInfo never holds a Dependency introduced by such a macro.             *)
C11_MalformedInvocation ==
    [][/\ (Len(nodes') = Len(nodes) + 1 /\ IsMalformed(nodes'[Len(nodes')])) =>
             /\ pc' = "walking"
             /\ UNCHANGED <<doc_info, module_infos, frames, document>>
       /\ \A i \in DOMAIN nodes' :
             IsMalformed(nodes'[i]) =>
                /\ DependencyHolders(i)' = {}
                /\ ~AtRoot(i)']_vars

\* a malformed macro and a well-formed sibling after it have been analysed
C11_Witness ==
    /\ pc = "done"
    /\ Len(nodes) = 2
    /\ IsMalformed(nodes[1])
    /\ IsSome(TargetArchive(DEPENDENCY_PRODUCER_BY_MACRONAME(nodes[1].name), nodes[1]))
    /\ IsDependencyMacro(nodes[2])
    /\ Len(doc_info.dependencies) = 1
    /\ doc_info.dependencies[1].intro_range = Span(nodes[2])


----------------------------------------------------------------------------
(* The sig parameter of a module environment                               *)

MaxSigLen == 4

\* the documents analysed: one with a language tag in its name, one without
SigDocuments == {<<"b", "source/s.de.tex">>, <<"b", "source/f.tex">>}

\* the hub with the language-tagged document, its siblings present or not
InitSig ==
    /\ diskDirs = Dirs
    /\ \E present \in SUBSET {"source/s.en.tex", "source/s.tex"} :
          diskFiles = [p \in DiskPaths |->
                          IF p \in Paths \/ p[2] = "source/s.de.tex" \/ p[2] \in present
                          THEN File(0, 0) ELSE None]
    /\ now = 0
    /\ fsLeft = 0
    /\ archive_lookup = UpdateResult(<<>>).lookup
    /\ bulk = Idle
    /\ ret = Ret("init", "ok", None)
    /\ NoWalk

SigValues == {None, Some(<< <<"sig", <<"en">>>> >>), Some(<< <<"sig", <<"fr">>>> >>),
              Some(<< <<"title", <<"t">>>> >>)}

NextSig ==
    \/ \E p \in SigDocuments : StartAnalysis(p, MaxSigLen)
    \/ TextNode("chars")
    \/ \E arg \in {<<"A">>, <<"B">>}, keyvals \in SigValues, len \in 2..MaxSigLen :
          EnvironmentNode("smodule", arg, keyvals, len)
    \/ \E len \in 2..MaxSigLen : EnvironmentNode("sdefinition", <<>>, None, len)
    \/ DependencyMacro("mhgraphics", None, None, Some(<<"img">>))
    \/ Return

SpecSig == InitSig /\ [][NextSig]_vars

\* the document's file name with the sig language in place of its language
\* tag, when the name has one
SigSibling(rel, sig_val) ==
    IF rel \in {"source/s.de.tex", "source/s.en.tex"}
    THEN Some("source/s." \o Join(sig_val) \o ".tex")
    ELSE None

\* the sibling document exists on disk
SiblingExists(d, sibling) ==
    \E p \in DiskPaths : p[1] = d /\ p[2] = sibling /\ IsSome(diskFiles[p])

\* the Dependencies of the module of environment j that environment j introduced
SigDependenciesOf(j) ==
    LET deps == module_infos[ModuleOfEnv(j)].dependencies
    IN  {k \in DOMAIN deps : deps[k].intro_range = Span(nodes[j])}

(* C12: a module environment with a sig parameter adds exactly one         *)
(* Dependency to the new module, held by no other module and not by the    *)
(* document: the document's own archive, the module's name, is_use and     *)
(* is_lib false, valid and intro range the environment's span, and the     *)
(* file the sibling document of the sig language exactly when that sibling *)
(* exists on disk, unset otherwise and unset when the file name carries no *)
(* language tag; a module environment without sig adds none.               *)
C12_SignatureDependency ==
    Analysing =>
       \A j \in ModuleEnvs :
          LET module_info == module_infos[ModuleOfEnv(j)]
              sibling == SigSibling(document[2], The(get_val(The(nodes[j].keyvals), "sig")))
          IN  IF HasSig(nodes[j])
              THEN /\ Cardinality(SigDependenciesOf(j)) = 1
                   /\ DependencyHolders(j) = {ModuleOfEnv(j)}
                   /\ ~AtRoot(j)
                   /\ \A k \in SigDependenciesOf(j) :
                         LET dep == module_info.dependencies[k]
                         IN  /\ dep.archive = ArchiveName(document[1])
                             /\ dep.module_name = Some(module_info.name)
                             /\ ~dep.is_use
                             /\ ~dep.is_lib
                             /\ dep.valid_range = Span(nodes[j])
                             /\ dep.intro_range = Span(nodes[j])
                             /\ dep.file =
                                   IF IsSome(sibling) /\ SiblingExists(document[1], The(sibling))
                                   THEN Some("$MATHHUB/" \o document[1] \o "/" \o The(sibling))
                                   ELSE None
              ELSE DependencyHolders(j) = {} /\ ~AtRoot(j)

\* a finished analysis of the language-tagged document with two sig modules:
\* one whose sibling exists, one whose sibling does not
C12_Witness ==
    /\ pc = "done"
    /\ document = <<"b", "source/s.de.tex">>
    /\ \E j, k \in ModuleEnvs :
          /\ HasSig(nodes[j]) /\ HasSig(nodes[k])
          /\ \E x \in SigDependenciesOf(j) :
                module_infos[ModuleOfEnv(j)].dependencies[x].file
                   = Some("$MATHHUB/b/source/s.en.tex")
          /\ \E y \in SigDependenciesOf(k) :
                module_infos[ModuleOfEnv(k)].dependencies[y].file = None

\* a finished analysis of the document without a language tag: the sig
\* Dependency has no file
C12_WitnessNoTag ==
    /\ pc = "done"
    /\ document = <<"b", "source/f.tex">>
    /\ \E j \in ModuleEnvs : HasSig(nodes[j]) /\ SigDependenciesOf(j) # {}


----------------------------------------------------------------------------
(* create_doc_info called again on an unchanged document                   *)

MaxRepeatLen == 3

\* the DocInfo a call starts with (line 225): a fresh one, whatever the
\* document had before
NewAnalysis_reusing(old_info, last_modified) == [old_info EXCEPT !.last_modified = last_modified]

NewAnalysis(old_info, last_modified) == NewDocInfo(last_modified)

\* the length of the document under analysis
DocLen == IF frames = <<>> THEN pos ELSE frames[1].end

\* create_doc_info is called a second time after the first call has ended,
\* the file and the hub being what they were: the same text is read as
\* long as the first call read it
Reanalyse ==
    /\ pc \notin {"idle", "walking"}
    /\ analysed = None
    /\ IsSome(diskFiles[document])
    /\ analysed' = Some([nodes |-> nodes, doc_info |-> doc_info,
                         module_infos |-> module_infos, pc |-> pc])
    /\ nodes' = <<>>
    /\ pos' = 0
    /\ frames' = <<Frame(DocLen, <<0, DocLen>>, None)>>
    /\ doc_info' = NewAnalysis(doc_info, The(diskFiles[document]).mtime)
    /\ module_infos' = <<>>
    /\ pc' = "walking"
    /\ UNCHANGED document
    /\ UNCHANGED hubVars

\* the parser reports the nodes it reported to the preceding call
SameText ==
    \/ analysed = None
    \/ /\ Len(nodes') <= Len(The(analysed).nodes)
       /\ nodes' = SubSeq(The(analysed).nodes, 1, Len(nodes'))

NextRepeat ==
    \/ \E p \in {<<"a", "source/f.tex">>, <<"b", "source/s.de.tex">>} : StartAnalysis(p, MaxRepeatLen)
    \/ TextNode("chars") /\ SameText
    \/ (\E len \in 2..MaxRepeatLen : GroupNode(len)) /\ SameText
    \/ (\E arg \in {<<"A">>, <<"B">>}, keyvals \in SigParams, len \in 2..MaxRepeatLen :
          EnvironmentNode("smodule", arg, keyvals, len)) /\ SameText
    \/ DependencyMacro("mhgraphics", None, None, Some(<<"img">>)) /\ SameText
    \/ DependencyMacro("usemodule", Some(<<"zz">>), None, Some(<<"m">>)) /\ SameText
    \/ DependencyMacro("usemodule", None, None, Some(<<"s">>)) /\ SameText
    \/ SymbolMacro("symdecl", None, <<Braced(<<"x">>)>>) /\ SameText
    \/ SymbolMacro("definiendum", None, <<Braced(<<"x">>), Braced(<<"v">>)>>) /\ SameText
    \/ UnexpectedNode /\ SameText
    \/ Return
    \/ Reanalyse

SpecRepeat == InitSig /\ [][NextRepeat]_vars

\* the second call has ended
Repeated == IsSome(analysed) /\ pc \notin {"idle", "walking"}

(* C13: a second analysis of a document whose file, modification time and  *)
(* hub are unchanged ends as the first did, and when it completes its      *)
(* DocInfo equals the first one in the timestamp, the root dependencies    *)
(* and the whole module tree with its symbols and dependencies: nothing of *)
(* the first run is left in the second result.                             *)
C13_AnalysisIdempotent ==
    Repeated =>
       /\ pc = The(analysed).pc
       /\ nodes = The(analysed).nodes
       /\ pc = "done" =>
             /\ doc_info = The(analysed).doc_info
             /\ module_infos = The(analysed).module_infos

\* both runs completed on a document with a module, a symbol and a
\* Dependency
C13_Witness ==
    /\ Repeated
    /\ pc = "done"
    /\ Len(module_infos) >= 1
    /\ \E m \in DOMAIN module_infos :
          module_infos[m].dependencies # <<>> \/ module_infos[m].symbols # <<>>


----------------------------------------------------------------------------
(* MathHub.get_archive_from_path                                           *)

\* a directory of the hub that lies in no repository
Outside == "x"

\* the walk up from the path to the first directory holding .git (lines
\* 32-36): the path's repository root, or nothing when the root of the file
\* system is reached
EnclosingRoot(d) == IF d \in diskDirs THEN Some(d) ELSE None

\* lines 31-39: the registry is asked for the root's path relative to the hub
get_archive_from_path(lk, d) ==
    IF EnclosingRoot(d) = None
    THEN Outcome("FileNotFoundError", None)
    ELSE Outcome("", get_archive(lk, The(EnclosingRoot(d))))

\* a client asks for the archive of a path below directory d
GetArchiveFromPath(d) ==
    /\ bulk.pc = "idle"
    /\ ret' = Ret("get_archive_from_path", d, get_archive_from_path(archive_lookup, d))
    /\ UNCHANGED walkVars
    /\ UNCHANGED <<diskDirs, diskFiles, now, fsLeft, archive_lookup, bulk>>

NextPath ==
    \/ MathHubUpdate
    \/ \E d \in Dirs \cup {Outside} : GetArchiveFromPath(d)
    \/ \E d \in Dirs : RemoveDir(d)
    \/ \E d \in Dirs : CloneDir(d)

SpecPath == InitRegistry /\ [][NextPath]_vars

\* the archives registered for root d
RegisteredFor(lk, d) == {i \in DOMAIN lk : lk[i].path = d}

(* C14, as claimed: for a path inside a registered repository root that is *)
(* on disk the lookup returns the Archive object registered for that root, *)
(* never absence, whatever name the archive is registered under; for a     *)
(* path with no enclosing root it fails with the not-found error.          *)
C14_ArchiveForPath ==
    ret.op = "get_archive_from_path" =>
       LET d == ret.val
           out == ret.obj
       IN  /\ (d \in diskDirs /\ RegisteredFor(archive_lookup, d) # {}) =>
                 /\ out.raised = ""
                 /\ IsSome(out.value)
                 /\ \E i \in RegisteredFor(archive_lookup, d) : The(out.value) = archive_lookup[i]
           /\ d \notin diskDirs => out.raised = "FileNotFoundError"


----------------------------------------------------------------------------
(* STeXDocument.delete_doc_info_if_outdated called by a client             *)

\* path.stat() raises FileNotFoundError when a DocInfo is cached and the
\* file is gone
\* a client's mh.get_archive(n).get_stex_doc(r).delete_doc_info_if_outdated()
DeleteDocInfoIfOutdated(n, r) ==
    /\ bulk.pc = "idle"
    /\ IsSome(DocAt(archive_lookup, n, r))
    /\ LET i == IndexOf(archive_lookup, n)
           repo == archive_lookup[i]
           docs == The(repo.docs)
           j == DocIndex(docs, r)
       IN  IF IsSome(docs[j].info) /\ diskFiles[<<repo.path, r>>] = None
           THEN /\ ret' = Ret("delete_doc_info_if_outdated", "FileNotFoundError", Some(<<n, r>>))
                /\ UNCHANGED archive_lookup
           ELSE /\ ret' = Ret("delete_doc_info_if_outdated", "ok", Some(<<n, r>>))
                /\ archive_lookup' =
                      [archive_lookup EXCEPT ![i] =
                          [repo EXCEPT !.docs =
                              Some([docs EXCEPT ![j] = delete_doc_info_if_outdated(repo.path, docs[j])])]]
    /\ UNCHANGED walkVars
    /\ UNCHANGED <<diskDirs, diskFiles, now, fsLeft, bulk>>

\* the file's modification time is set back (utime), the content stays
BackdateFile(p) ==
    /\ fsLeft > 0
    /\ IsSome(diskFiles[p])
    /\ now' = now + 1
    /\ fsLeft' = fsLeft - 1
    /\ diskFiles' = [diskFiles EXCEPT ![p] = File(The(@).mtime - 1, The(@).ver)]
    /\ UNCHANGED walkVars
    /\ UNCHANGED <<diskDirs, archive_lookup, bulk, ret>>

\* documents are analysed and their files change, no refresh runs
NextOutdated ==
    \/ \E n \in Names, r \in Range(RelOrder) : AccessDocInfo(n, r)
    \/ \E n \in Names, r \in Range(RelOrder) : DeleteDocInfoIfOutdated(n, r)
    \/ \E p \in Paths : TouchFile(p)
    \/ \E p \in Paths : ModifyFile(p)
    \/ \E p \in Paths : BackdateFile(p)
    \/ \E p \in Paths : DeleteFile(p)

SpecOutdated == Init /\ [][NextOutdated]_vars

(* C15: the staleness check on a document whose file exists discards the   *)
(* cached DocInfo exactly when one is cached and the file's modification   *)
(* time is strictly greater than the DocInfo's timestamp; with an equal or *)
(* smaller time, or with nothing cached, the cache is as it was; the check *)
(* never stores a DocInfo that was not there, and touches no other         *)
(* document.                                                               *)
C15_DiscardIffOutdated ==
    [][\A n \in Names, r \in Range(RelOrder) :
          LET o == DocAt(archive_lookup, n, r)
              d == archive_lookup[IndexOf(archive_lookup, n)].path
              f == diskFiles[<<d, r>>]
              after == DocAt(archive_lookup', n, r)
          IN  (/\ ret'.op = "delete_doc_info_if_outdated"
               /\ IsSome(o)
               /\ IsSome(f)
               /\ DeleteDocInfoIfOutdated(n, r))
              => /\ IsSome(after)
                 /\ The(after).id = The(o).id
                 /\ IF IsSome(The(o).info) /\ The(f).mtime > The(The(o).info).last_modified
                    THEN The(after).info = None
                    ELSE The(after).info = The(o).info
                 /\ \A x \in AllDocs(archive_lookup') :
                       x \in AllDocs(archive_lookup) \/ (x[1] = d /\ x[2].rel = r)]_vars

\* the check has discarded the DocInfo of a file touched after the analysis
C15_Witness ==
    /\ ret.op = "delete_doc_info_if_outdated"
    /\ ret.val = "ok"
    /\ LET o == DocAt(archive_lookup, The(ret.obj)[1], The(ret.obj)[2])
           d == archive_lookup[IndexOf(archive_lookup, The(ret.obj)[1])].path
       IN  /\ The(o).info = None
           /\ IsSome(The(o).dropped)
           /\ IsSome(diskFiles[<<d, The(ret.obj)[2]>>])
           /\ The(diskFiles[<<d, The(ret.obj)[2]>>]).mtime > The(The(o).dropped).last_modified

\* the check has kept a DocInfo as old as its file, and one newer than its file
C15_WitnessKept ==
    /\ ret.op = "delete_doc_info_if_outdated"
    /\ ret.val = "ok"
    /\ LET o == DocAt(archive_lookup, The(ret.obj)[1], The(ret.obj)[2])
           d == archive_lookup[IndexOf(archive_lookup, The(ret.obj)[1])].path
       IN  /\ IsSome(The(o).info)
           /\ IsSome(diskFiles[<<d, The(ret.obj)[2]>>])
           /\ The(diskFiles[<<d, The(ret.obj)[2]>>]).mtime < The(The(o).info).last_modified


----------------------------------------------------------------------------
(* Repository.update called by a client                                    *)

\* a client's mh.get_archive(n).update(); the outcome remembers the
\* document map the call found
RepositoryUpdateCall(n) ==
    /\ bulk.pc = "idle"
    /\ n \in Keys(archive_lookup)
    /\ LET i == IndexOf(archive_lookup, n)
       IN  /\ archive_lookup' = [archive_lookup EXCEPT ![i] = RepositoryUpdate(archive_lookup[i])]
           /\ ret' = Ret("repository_update", n, archive_lookup[i].docs)
    /\ UNCHANGED walkVars
    /\ UNCHANGED <<diskDirs, diskFiles, now, fsLeft, bulk>>

\* documents are loaded, files and roots come and go, archives are refreshed
NextDocs ==
    \/ \E n \in Names, r \in Range(RelOrder) : AccessDocInfo(n, r)
    \/ \E n \in Names : RepositoryUpdateCall(n)
    \/ \E p \in Paths : TouchFile(p)
    \/ \E p \in Paths : CreateFile(p)
    \/ \E p \in Paths : DeleteFile(p)
    \/ \E d \in Dirs : RemoveDir(d)

SpecDocs == Init /\ [][NextDocs]_vars

\* the .tex files present under the source and lib trees of root d
TexFilesOf(d) ==
    {p[2] : p \in {q \in DiskPaths : /\ q[1] = d
                                     /\ d \in diskDirs
                                     /\ IsSome(diskFiles[q])
                                     /\ q[2] # "source/s"}}

(* C16: a refresh of an archive whose document map has been loaded leaves  *)
(* the map's keys equal to the relative paths of the .tex files present    *)
(* under source and lib, one entry per key: the keys of vanished files are *)
(* gone, new files have an entry, and a surviving key is mapped to the     *)
(* object it was mapped to, with the DocInfo it had cached unless that was *)
(* older than the file; a refresh of an archive whose map was never loaded *)
(* leaves it unloaded.                                                     *)
C16_DocumentMapTracksDisk ==
    [][\A n \in Names :
          (ret'.op = "repository_update" /\ n \in Keys(archive_lookup) /\ RepositoryUpdateCall(n)) =>
             LET repo == archive_lookup[IndexOf(archive_lookup, n)]
                 after == archive_lookup'[IndexOf(archive_lookup', n)]
             IN  IF repo.docs = None
                 THEN after.docs = None
                 ELSE /\ IsSome(after.docs)
                      /\ DocKeys(The(after.docs)) = TexFilesOf(repo.path)
                      /\ Len(The(after.docs)) = Cardinality(TexFilesOf(repo.path))
                      /\ \A doc \in Range(The(repo.docs)) :
                            doc.rel \in TexFilesOf(repo.path) =>
                               \E kept \in Range(The(after.docs)) :
                                  /\ kept.rel = doc.rel
                                  /\ kept.id = doc.id
                                  /\ ~Stale(repo.path, doc) => kept.info = doc.info]_vars

\* the document map the last refresh found, and the one it left
Before == The(ret.obj)

After == The(archive_lookup[IndexOf(archive_lookup, ret.val)].docs)

\* a refresh has added the key of a new file next to a surviving document
C16_Witness ==
    /\ ret.op = "repository_update"
    /\ IsSome(ret.obj)
    /\ DocKeys(After) \ DocKeys(Before) # {}
    /\ \E doc \in Range(Before) : doc \in Range(After) /\ IsSome(doc.info)

\* a refresh has removed the key of a vanished file
C16_WitnessRemoved ==
    /\ ret.op = "repository_update"
    /\ IsSome(ret.obj)
    /\ DocKeys(Before) \ DocKeys(After) # {}
    /\ \E doc \in Range(Before) : doc \in Range(After)

\* a refresh has left an archive unloaded although it has files
C16_WitnessUnloaded ==
    /\ ret.op = "repository_update"
    /\ ret.obj = None
    /\ archive_lookup[IndexOf(archive_lookup, ret.val)].docs = None
    /\ TexFilesOf(archive_lookup[IndexOf(archive_lookup, ret.val)].path) # {}


----------------------------------------------------------------------------
(* Repository.normalize_tex_file_ref behind functools.lru_cache            *)

MaxNormEvents == 1

\* the argument lists of the calls: the path alone, or the path and the tree
NormArgs == {<< <<"s">> >>, << <<"s">>, "source" >>, << <<"g">>, "lib" >>}

\* the archives asked
NormArchives == {"A", "b"}

\* the (path, tree) a call is about: the tree defaults to 'source'
CallKey(args) == <<args[1], IF Len(args) > 1 THEN args[2] ELSE "source">>

\* lru_cache's key: the instance and the positional arguments as passed
CacheKey(args) == args

\* the entries the cache holds for an instance under an argument list
Cached(repo, args) == {e \in repo.cache : e.args = CacheKey(args)}

\* a client's mh.get_archive(n).normalize_tex_file_ref(*args): the cached
\* result when the argument list is a key of the cache, else the body's
\* result, which is stored; the outcome remembers the call, whether the
\* body ran, and the time
NormalizeCall(n, args) ==
    /\ bulk.pc = "idle"
    /\ n \in Keys(archive_lookup)
    /\ LET i == IndexOf(archive_lookup, n)
           repo == archive_lookup[i]
       IN  IF Cached(repo, args) # {}
           THEN /\ \E e \in Cached(repo, args) :
                      ret' = Ret("normalize_tex_file_ref", n,
                                 Some([args |-> args, value |-> e.value, computed |-> FALSE, at |-> now]))
                /\ UNCHANGED archive_lookup
           ELSE \E out \in CallNormalize(repo, args) :
                   /\ out.raised = ""
                   /\ ret' = Ret("normalize_tex_file_ref", n,
                                 Some([args |-> args, value |-> out.value, computed |-> TRUE, at |-> now]))
                   /\ archive_lookup' =
                         [archive_lookup EXCEPT ![i].cache =
                             @ \cup {[args |-> CacheKey(args), value |-> out.value]}]
    /\ UNCHANGED walkVars
    /\ UNCHANGED <<diskDirs, diskFiles, now, fsLeft, bulk>>

\* the hub with all, some or none of the files a reference to s can
\* resolve to
InitNormalize ==
    /\ diskDirs = Dirs
    /\ \E present \in {LangRels, {"source/s.de.tex", "source/s.en.tex"}, {}} :
          diskFiles = [p \in DiskPaths |->
                          IF p \in Paths \/ p[2] \in present THEN File(0, 0) ELSE None]
    /\ now = 0
    /\ fsLeft = MaxNormEvents
    /\ archive_lookup = UpdateResult(<<>>).lookup
    /\ bulk = Idle
    /\ ret = Ret("init", "ok", None)
    /\ NoWalk

\* references are normalized while files come and go and the registry is
\* refreshed
NextNormalize ==
    \/ \E n \in NormArchives, args \in NormArgs : NormalizeCall(n, args)
    \/ \E r \in LangRels : CreateFile(<<LangDir, r>>)
    \/ \E r \in LangRels : DeleteFile(<<LangDir, r>>)
    \/ MathHubUpdate

SpecNormalize == InitNormalize /\ [][NextNormalize]_vars

\* path names a file of the tree
IsFile(d, directory, path) == (<<directory, "/">> \o path) \in FilesUnder(d)

\* the files basename.<anything>.tex of the directory holding path
LangFiles(d, directory, path) ==
    {path \o <<".">> \o SubSeq(f, Len(path) + 4, Len(f)) :
        f \in {g \in FilesUnder(d) :
                 /\ Len(g) >= Len(path) + 6
                 /\ SubSeq(g, 1, Len(path) + 3) = <<directory, "/">> \o path \o <<".">>
                 /\ SubSeq(g, Len(g) - 1, Len(g)) = <<".", "tex">>
                 /\ Find(SubSeq(g, Len(path) + 4, Len(g)), "/") = 0}}

(* C17: a result the normalizer computes for (path, tree) is the literal   *)
(* path when that is a file of the tree; else path + ".tex" when that is a *)
(* file; else one of the files basename.<anything>.tex of the containing   *)
(* directory when there is one; else absence. An earlier alternative that  *)
(* exists wins, and a result that is not absence names a file that exists  *)
(* when it is computed.                                                    *)
C17_NormalizeOrder ==
    [][\A n \in NormArchives, args \in NormArgs :
          (/\ ret'.op = "normalize_tex_file_ref"
           /\ ret'.val = n
           /\ The(ret'.obj).args = args
           /\ The(ret'.obj).computed
           /\ n \in Keys(archive_lookup)
           /\ NormalizeCall(n, args))
          => LET d == archive_lookup[IndexOf(archive_lookup, n)].path
                 path == CallKey(args)[1]
                 tree == CallKey(args)[2]
                 value == The(ret'.obj).value
             IN  /\ IF IsFile(d, tree, path) THEN value = Some(path)
                    ELSE IF IsFile(d, tree, path \o <<".", "tex">>)
                    THEN value = Some(path \o <<".", "tex">>)
                    ELSE IF LangFiles(d, tree, path) # {}
                    THEN IsSome(value) /\ The(value) \in LangFiles(d, tree, path)
                    ELSE value = None
                 /\ IsSome(value) => IsFile(d, tree, The(value))]_vars

\* the literal path was computed as the result although path + ".tex" and
\* a language-tagged file exist as well
C17_Witness ==
    /\ ret.op = "normalize_tex_file_ref"
    /\ The(ret.obj).at = now
    /\ The(ret.obj).computed
    /\ The(ret.obj).value = Some(<<"s">>)
    /\ IsFile("b", "source", <<"s", ".", "tex">>)
    /\ IsFile("b", "source", <<"s", ".", "en", ".", "tex">>)

\* path + ".tex" was computed as the result although language-tagged files exist
C17_WitnessTex ==
    /\ ret.op = "normalize_tex_file_ref"
    /\ The(ret.obj).at = now
    /\ The(ret.obj).computed
    /\ The(ret.obj).value = Some(<<"s", ".", "tex">>)
    /\ IsFile("b", "source", <<"s", ".", "de", ".", "tex">>)

\* a language-tagged file was computed as the result, and absence
C17_WitnessLang ==
    /\ ret.op = "normalize_tex_file_ref"
    /\ The(ret.obj).at = now
    /\ The(ret.obj).computed
    /\ The(ret.obj).value = Some(<<"s", ".", "de", ".", "tex">>)
    /\ IsFile("b", "source", <<"s", ".", "en", ".", "tex">>)


\* the results the instance has returned so far for the (path, tree) of args
ReturnedFor(repo, args) == {e.value : e \in {x \in repo.cache : CallKey(x.args) = CallKey(args)}}

(* C18, as claimed: once the normalizer has returned a result for (path,   *)
(* tree) on an Archive instance, every later call with the same (path,     *)
(* tree) on that instance returns that result, whatever files were created *)
(* or deleted and whatever was refreshed in between.                       *)
C18_MemoizedPerPathAndTree ==
    [][\A n \in NormArchives, args \in NormArgs :
          (/\ ret'.op = "normalize_tex_file_ref"
           /\ ret'.val = n
           /\ The(ret'.obj).args = args
           /\ n \in Keys(archive_lookup)
           /\ NormalizeCall(n, args))
          => \A value \in ReturnedFor(archive_lookup[IndexOf(archive_lookup, n)], args) :
                The(ret'.obj).value = value]_vars

\* what the cache does guarantee: a later call that passes the same
\* argument list returns the result of the first such call, and an
\* instance's cache holds one result per argument list
MemoizedPerArgumentList ==
    [][/\ \A n \in NormArchives, args \in NormArgs :
             (/\ ret'.op = "normalize_tex_file_ref"
              /\ ret'.val = n
              /\ The(ret'.obj).args = args
              /\ n \in Keys(archive_lookup)
              /\ NormalizeCall(n, args))
             => \A e \in Cached(archive_lookup[IndexOf(archive_lookup, n)], args) :
                   The(ret'.obj).value = e.value /\ ~The(ret'.obj).computed
       /\ \A i \in DOMAIN archive_lookup' :
             \A e1, e2 \in archive_lookup'[i].cache : e1.args = e2.args => e1 = e2]_vars

\* a cached result that no longer names what the disk holds was returned
StaleResultReturned ==
    /\ ret.op = "normalize_tex_file_ref"
    /\ ~The(ret.obj).computed
    /\ The(ret.obj).at = now
    /\ ret.val \in Keys(archive_lookup)
    /\ The(ret.obj).value \notin
          normalize_tex_file_ref(archive_lookup[IndexOf(archive_lookup, ret.val)],
                                 CallKey(The(ret.obj).args)[1], CallKey(The(ret.obj).args)[2])


----------------------------------------------------------------------------
(* The order in which a module reference is resolved                       *)

\* the results the normalizer can give for the first of the candidates
\* that resolves, absence when none does
RECURSIVE FirstResolving(_, _, _)
FirstResolving(repo, path_options, top_dir) ==
    IF path_options = <<>> THEN {None}
    ELSE LET r == normalize_tex_file_ref(repo, Head(path_options), top_dir)
         IN  IF r = {None} THEN FirstResolving(repo, Tail(path_options), top_dir) ELSE r

\* the candidate list of the claim: below the document's sub-directory
\* first unless an archive override is given, then verbatim, each as a bare
\* file and with the module name appended
Candidates(n) ==
    LET dp == DEPENDENCY_PRODUCER_BY_MACRONAME(n.name)
        path == PathOf(The(n.main))
        module_name == ModuleNameOf(The(n.main))
        subdir == FromSubdir(document[2])
        verbatim == <<path, path \o <<"/">> \o module_name>>
    IN  IF TargetArchive(dp, n) = None
        THEN <<subdir \o <<"/">> \o path, subdir \o <<"/">> \o path \o <<"/">> \o module_name>>
                \o verbatim
        ELSE verbatim

(* C19, as claimed: a module-referencing dependency macro with a main      *)
(* argument whose archive is installed yields a Dependency whose file is   *)
(* the normalizer's result for the first candidate that resolves, in the   *)
(* order sub-directory/path, sub-directory/path/module, path, path/module  *)
(* without an archive override and path, path/module with one.             *)
C19_ResolutionOrder ==
    Analysing =>
       \A i \in DOMAIN nodes :
          LET n == nodes[i]
              dp == DEPENDENCY_PRODUCER_BY_MACRONAME(n.name)
          IN  (/\ IsDependencyMacro(n)
               /\ IsSome(n.main)
               /\ dp.references_module
               /\ IsSome(TargetOf(n)))
              => \E dep \in AllDependencies :
                    /\ dep.intro_range = Span(n)
                    /\ \E v \in FirstResolving(The(TargetOf(n)), Candidates(n),
                                               IF dp.is_lib THEN "lib" ELSE "source") :
                          dep.file = IF IsSome(v) THEN Some(Join(The(v))) ELSE None


----------------------------------------------------------------------------
(* The ranges and flags of the Dependencies of dependency macros           *)

MaxRangeLen == 5

\* dependency macros that yield a Dependency, at the top level and inside
\* groups and environments nested in each other
NextRanges ==
    \/ \E p \in {<<"a", "source/f.tex">>} : StartAnalysis(p, MaxRangeLen)
    \/ TextNode("chars")
    \/ \E len \in 2..MaxRangeLen : GroupNode(len)
    \/ \E len \in 2..MaxRangeLen : EnvironmentNode("smodule", <<"A">>, None, len)
    \/ \E len \in 2..MaxRangeLen : EnvironmentNode("sdefinition", <<>>, None, len)
    \/ DependencyMacro("mhgraphics", None, None, Some(<<"img">>))
    \/ DependencyMacro("usemodule", Some(<<"zz">>), None, Some(<<"m">>))
    \/ DependencyMacro("libinput", Some(<<"zz">>), None, Some(<<"p">>))
    \/ Return

SpecRanges == InitWalk /\ [][NextRanges]_vars

\* the groups and environments that enclose node i
Enclosing(i) == {j \in DOMAIN nodes : nodes[j].type \in {"group", "environment"} /\ Inside(i, j)}

\* the span of the innermost group or environment enclosing node i, the
\* whole document's span when there is none
EnclosingSpan(i) ==
    IF Enclosing(i) = {} THEN <<0, DocLen>>
    ELSE Span(nodes[CHOOSE j \in Enclosing(i) : \A k \in Enclosing(i) : k <= j])

\* the Dependencies that dependency macro i produced
ProducedBy(i) == {dep \in AllDependencies : dep.intro_range = Span(nodes[i])}

(* C20: every Dependency produced from a dependency macro has the macro's  *)
(* span as intro_range and the span of the innermost enclosing group or    *)
(* environment, or of the whole document, as valid_range, so that the      *)
(* intro_range lies within the valid_range, and it carries the is_lib,     *)
(* is_use and target_no_tex flags of the macro's rule.                     *)
C20_DependencyRanges ==
    Analysing =>
       /\ \A dep \in AllDependencies :
             \E i \in DOMAIN nodes : IsDependencyMacro(nodes[i]) /\ dep.intro_range = Span(nodes[i])
       /\ \A i \in DOMAIN nodes :
             IsDependencyMacro(nodes[i]) =>
                \A dep \in ProducedBy(i) :
                   LET dp == DEPENDENCY_PRODUCER_BY_MACRONAME(nodes[i].name)
                   IN  /\ dep.valid_range = EnclosingSpan(i)
                       /\ dep.valid_range[1] <= dep.intro_range[1]
                       /\ dep.intro_range[2] <= dep.valid_range[2]
                       /\ dep.is_lib = dp.is_lib
                       /\ dep.is_use = dp.is_use
                       /\ dep.target_no_tex = dp.target_no_tex

\* a finished analysis with a Dependency of a macro inside a group inside
\* an environment
C20_Witness ==
    /\ pc = "done"
    /\ \E i \in DOMAIN nodes :
          /\ IsDependencyMacro(nodes[i])
          /\ Cardinality(Enclosing(i)) = 2
          /\ nodes[CHOOSE g \in Enclosing(i) : \A k \in Enclosing(i) : k <= g].type = "group"
          /\ \E dep \in ProducedBy(i) : dep.valid_range = EnclosingSpan(i) /\ dep.is_use

\* a finished analysis with a Dependency of a macro at the top level after
\* a group
C20_WitnessTopLevel ==
    /\ pc = "done"
    /\ \E i \in DOMAIN nodes :
          /\ IsDependencyMacro(nodes[i])
          /\ i > 1
          /\ Enclosing(i) = {}
          /\ \E dep \in ProducedBy(i) : dep.valid_range = <<0, MaxRangeLen>> /\ dep.target_no_tex
----------------------------------------------------------------------------
(* Dependency macros whose archive is not in the registry.  The registry   *)
(* is the one a hub built over the full hub holds after roots were removed *)
(* or cloned and the registry refreshed or not; the refreshes and the      *)
(* changes of roots happen before the analysis (the registry is changed    *)
(* by the thread that analyses).  The documents end, at the top level or   *)
(* inside a module, with any dependency macro, after text, a module        *)
(* environment or a macro that has already left a Dependency.              *)

\* the length of the documents with dependency macros on absent archives
MaxAbsentLen == 3

\* an archive override in the form the macro's rule reads it: none, an
\* archive that is never installed, one padded with a blank whose root may
\* be missing, and the directory name of the archive whose id is A
AbsentArgs(macroname) ==
    IF DEPENDENCY_PRODUCER_BY_MACRONAME(macroname).opt_param_is_archive
    THEN {<<None, None>>, <<Some(<<"zz">>), None>>, <<Some(<<" ", "c">>), None>>,
          <<Some(<<"a">>), None>>}
    ELSE {<<None, None>>, <<None, Some(<< <<"archive", <<"zz">>>> >>)>>,
          <<None, Some(<< <<"archive", <<"c">>>> >>)>>}

InitAbsent ==
    /\ diskDirs = Dirs
    /\ diskFiles = [p \in DiskPaths |-> IF p \in Paths THEN File(0, 0) ELSE None]
    /\ now = 0
    /\ fsLeft = MaxDirEvents
    /\ archive_lookup = UpdateResult(<<>>).lookup
    /\ bulk = Idle
    /\ ret = Ret("init", "ok", None)
    /\ NoWalk

NextAbsent ==
    \/ pc = "idle" /\ MathHubUpdate
    \/ \E d \in Dirs : pc = "idle" /\ RemoveDir(d)
    \/ \E d \in Dirs : pc = "idle" /\ CloneDir(d)
    \/ \E p \in {<<"a", "source/f.tex">>, <<"b", "source/f.tex">>}, len \in 1..MaxAbsentLen :
          StartAnalysis(p, len)
    \/ Fits(1) /\ pos + 1 < Top.end /\ TextNode("chars")
    \/ Fits(1) /\ pos + 1 < Top.end /\ DependencyMacro("mhgraphics", None, Some(<< <<"archive", <<"zz">>>> >>), Some(<<"img">>))
    \/ EnvironmentNode("smodule", <<"A">>, None, MaxAbsentLen - pos)
    \/ \E macroname \in DependencyMacroNames : \E a \in AbsentArgs(macroname) :
          \E main \in MainArgs \ {None} :
             Fits(1) /\ pos + 1 = Top.end /\ DependencyMacro(macroname, a[1], a[2], main)
    \/ Return

SpecAbsent == InitAbsent /\ [][NextAbsent]_vars

\* the archive name a dependency macro of the document selects: the
\* override its rule reads, else the document's archive
SelectedArchive(n) ==
    LET dp == DEPENDENCY_PRODUCER_BY_MACRONAME(n.name)
        override == IF dp.opt_param_is_archive
                    THEN (IF IsSome(n.opt) THEN Strip(The(n.opt)) ELSE <<>>)
                    ELSE IF dp.archive_in_params /\ IsSome(n.keyvals)
                              /\ IsSome(get_val(The(n.keyvals), "archive"))
                         THEN The(get_val(The(n.keyvals), "archive"))
                         ELSE <<>>
    IN  IF override # <<>> THEN Join(override) ELSE ArchiveName(document[1])

\* the number of Dependency objects the analysis holds
RECURSIVE DependenciesIn(_, _)
DependenciesIn(heap, k) ==
    IF k = 0 THEN 0 ELSE Len(heap[k].dependencies) + DependenciesIn(heap, k - 1)

DependencyCount == Len(doc_info.dependencies) + DependenciesIn(module_infos, Len(module_infos))

\* the Dependency objects introduced by the macro with span s
IntroducedAt(s) == {dep \in AllDependencies : dep.intro_range = s}

(* C21: the step of the walk over a dependency macro that has a main       *)
(* argument and whose selected archive name (the override if given, else   *)
(* the document's archive) is not a key of the registry raises nothing,    *)
(* adds exactly one Dependency, which carries that archive name and has    *)
(* neither a file nor a module name, and leaves the hub (the disk and the  *)
(* archives' normalisation caches) as it is: no path is resolved.          *)
C21_ArchiveNotPresent ==
    [][(/\ Len(nodes') = Len(nodes) + 1
        /\ IsDependencyMacro(nodes'[Len(nodes')])
        /\ IsSome(nodes'[Len(nodes')].main)
        /\ SelectedArchive(nodes'[Len(nodes')]) \notin Keys(archive_lookup)) =>
           LET n == nodes'[Len(nodes')]
           IN  /\ pc' = "walking"
               /\ UNCHANGED hubVars
               /\ DependencyCount' = DependencyCount + 1
               /\ IntroducedAt(Span(n)) = {}
               /\ \A dep \in AllDependencies' :
                     dep.intro_range = Span(n) =>
                     /\ dep.archive = SelectedArchive(n)
                     /\ dep.file = None
                     /\ dep.module_name = None]_vars

\* a module reference to an archive that is not installed has been analysed
\* inside a module of a document whose own archive is installed
C21_Witness ==
    /\ pc = "done"
    /\ Len(nodes) = 2
    /\ nodes[2].name = "usemodule"
    /\ nodes[2].opt = Some(<<"zz">>)
    /\ nodes[2].main = Some(<<"s", "/", "m", "?", "M">>)
    /\ ArchiveName(document[1]) \in Keys(archive_lookup)
    /\ Len(module_infos) = 1
    /\ module_infos[1].dependencies = <<Dependency("zz", None, None, FALSE, TRUE, FALSE, <<0, 3>>, <<1, 2>>)>>

\* a macro without override in a document whose archive has left the
\* registry has been analysed
C21_WitnessOwnArchive ==
    /\ pc = "done"
    /\ Len(nodes) = 1
    /\ nodes[1].opt = None /\ nodes[1].keyvals = None
    /\ ArchiveName(document[1]) \notin Keys(archive_lookup)
    /\ Len(doc_info.dependencies) = 1

----------------------------------------------------------------------------
(* flattened_dependencies, applied to the DocInfo of a completed analysis  *)
(* and to each of its ModuleInfos.  The documents hold modules nested up   *)
(* to three deep, with and without a sig Dependency of their own, and      *)
(* dependency macros at every level.                                       *)

\* the length of the documents whose dependencies are flattened
MaxFlattenLen == 6

\* a flattening that descends into every nested module
ModuleInfo_flattened_dependencies_deep(heap, m) ==
    LET ms == ModuleIterModules(heap, m)
    IN  Flatten([i \in DOMAIN ms |-> heap[ms[i]].dependencies])

\* ModuleInfo.flattened_dependencies: yield from self.dependencies, then
\* from module.dependencies for each module of self.modules
ModuleInfo_flattened_dependencies(heap, m) ==
    heap[m].dependencies
       \o Flatten([i \in DOMAIN heap[m].modules |-> heap[heap[m].modules[i]].dependencies])

\* DocInfo.flattened_dependencies
DocInfo_flattened_dependencies(info, heap) ==
    info.dependencies
       \o Flatten([i \in DOMAIN info.modules |-> heap[info.modules[i]].dependencies])

\* list(x.flattened_dependencies()) for the DocInfo (m = 0) or for the
\* ModuleInfo m of the analysed document
FlattenedDependencies(m) ==
    /\ pc = "done"
    /\ m \in 0..Len(module_infos)
    /\ ret' = Ret("flattened_dependencies", m,
                  Some(IF m = 0 THEN DocInfo_flattened_dependencies(doc_info, module_infos)
                       ELSE ModuleInfo_flattened_dependencies(module_infos, m)))
    /\ UNCHANGED <<diskDirs, diskFiles, now, fsLeft, archive_lookup, bulk>>
    /\ UNCHANGED walkVars

NextFlatten ==
    \/ StartAnalysis(<<"b", "source/s.de.tex">>, MaxFlattenLen)
    \/ TextNode("chars")
    \/ \E keyvals \in SigParams, len \in 2..MaxFlattenLen :
          EnvironmentNode("smodule", <<"A">>, keyvals, len)
    \/ DependencyMacro("mhgraphics", None, None, Some(<<"img">>))
    \/ Return
    \/ \E m \in 0..MaxFlattenLen : FlattenedDependencies(m)

SpecFlatten == InitSig /\ [][NextFlatten]_vars

\* the own dependencies and the immediate modules of the receiver
OwnDependencies(m) == IF m = 0 THEN doc_info.dependencies ELSE module_infos[m].dependencies

ImmediateModules(m) == IF m = 0 THEN doc_info.modules ELSE module_infos[m].modules

\* the modules nested below module m, at any depth
Descendants(m) == Range(ModuleIterModules(module_infos, m)) \ {m}

\* the modules nested below an immediate module of the receiver
DeeperModules(m) == UNION {Descendants(ImmediateModules(m)[i]) : i \in DOMAIN ImmediateModules(m)}

\* the number of dependencies yielded before those of the k-th immediate module
RECURSIVE YieldedBefore(_, _)
YieldedBefore(m, k) ==
    IF k = 1 THEN Len(OwnDependencies(m))
    ELSE YieldedBefore(m, k - 1) + Len(module_infos[ImmediateModules(m)[k - 1]].dependencies)

(* C22: flattened_dependencies of the DocInfo, and of each ModuleInfo,     *)
(* yields the receiver's own dependencies in order, then the own           *)
(* dependencies of each top-level module (of each immediate submodule) in  *)
(* order, and nothing else; no dependency of a module nested one level     *)
(* deeper or more is yielded, and no dependency is yielded twice.          *)
C22_ShallowFlattening ==
    ret.op = "flattened_dependencies" =>
       LET m == ret.val
           out == The(ret.obj)
           modules == ImmediateModules(m)
       IN  /\ SubSeq(out, 1, Len(OwnDependencies(m))) = OwnDependencies(m)
           /\ \A k \in DOMAIN modules :
                 \A d \in DOMAIN module_infos[modules[k]].dependencies :
                    out[YieldedBefore(m, k) + d] = module_infos[modules[k]].dependencies[d]
           /\ Len(out) = YieldedBefore(m, Len(modules) + 1)
           /\ \A g \in DeeperModules(m) :
                 Range(module_infos[g].dependencies) \cap Range(out) = {}
           /\ \A i, j \in DOMAIN out : out[i] = out[j] => i = j

\* the DocInfo of a document with a dependency of its own, a top-level
\* module and a module nested two levels below it, each with a dependency of
\* its own, has been flattened
C22_Witness ==
    /\ ret.op = "flattened_dependencies"
    /\ ret.val = 0
    /\ doc_info.dependencies # <<>>
    /\ \E t \in Range(doc_info.modules) :
          /\ module_infos[t].dependencies # <<>>
          /\ \E s \in Range(module_infos[t].modules) :
                /\ module_infos[s].dependencies # <<>>
                /\ Len(The(ret.obj)) = Len(doc_info.dependencies) + Len(module_infos[t].dependencies)

\* a ModuleInfo with a submodule and a grand-submodule that have
\* dependencies has been flattened
C22_WitnessModule ==
    /\ ret.op = "flattened_dependencies"
    /\ ret.val = 1
    /\ \E s \in Range(module_infos[1].modules) :
          /\ module_infos[s].dependencies # <<>>
          /\ \E g \in Range(module_infos[s].modules) : module_infos[g].dependencies # <<>>

----------------------------------------------------------------------------
(* C23, as claimed: a cached DocInfo is never stamped newer than the       *)
(* content it was computed from: in every reachable state, a cached        *)
(* DocInfo whose timestamp is at least the file's current modification     *)
(* time was computed from the file's current content.                      *)
C23_NeverStampedNewer ==
    \A e \in AllDocs(archive_lookup) :
       LET f == diskFiles[<<e[1], e[2].rel>>]
           info == e[2].info
       IN  (IsSome(info) /\ IsSome(f) /\ The(info).last_modified >= The(f).mtime) =>
              The(info).ver = The(f).ver

----------------------------------------------------------------------------
(* The frame of load_all_doc_infos.  A step of the call is the start of    *)
(* the call, a worker's read or stat, or the delivery of a batch; the      *)
(* steps of other processes change the disk, those of other operations     *)
(* report under their own name.                                            *)

BulkStep ==
    /\ ret'.op = "load_all_doc_infos"
    /\ diskFiles' = diskFiles
    /\ diskDirs' = diskDirs

\* the keys of an archive's document map, in dict order (none while the
\* map has not been enumerated)
KeySeq(repo) ==
    IF IsSome(repo.docs) THEN [j \in DOMAIN The(repo.docs) |-> The(repo.docs)[j].rel] ELSE <<>>

\* the cache slot of the archive's document r
InfoOf(repo, r) ==
    IF IsSome(repo.docs) /\ r \in DocKeys(The(repo.docs))
    THEN The(repo.docs)[DocIndex(The(repo.docs), r)].info
    ELSE None

\* the archive is flagged as an stex archive when the call asks
FlaggedStex(repo) == IsStexArchive(repo).stex = "yes"

\* the archive's document map is enumerated by its next stex_doc_iter()
NotEnumerated(repo) == ~(IsSome(repo.docs) /\ The(repo.docs) # <<>>)

\* the documents the call works on
Targets == {<<bulk.documents[k].name, bulk.documents[k].rel>> : k \in DOMAIN bulk.documents}

\* the registry's archive set is unchanged by the step
ArchiveSetKept ==
    /\ Len(archive_lookup') = Len(archive_lookup)
    /\ \A i \in DOMAIN archive_lookup :
          /\ archive_lookup'[i].name = archive_lookup[i].name
          /\ archive_lookup'[i].id = archive_lookup[i].id
          /\ archive_lookup'[i].path = archive_lookup[i].path

\* the step writes only slots of the documents the call works on, which
\* were uncached documents of stex archives when it started; a cached
\* DocInfo stays the very same object; a non-stex archive is left alone
SlotsFramed ==
    /\ \A i \in DOMAIN archive_lookup :
          LET old == archive_lookup[i]
              new == archive_lookup'[i]
          IN  /\ ~FlaggedStex(old) => new.docs = old.docs
              /\ \A r \in Range(KeySeq(old)) \cup Range(KeySeq(new)) :
                    /\ IsSome(InfoOf(old, r)) => InfoOf(new, r) = InfoOf(old, r)
                    /\ (InfoOf(old, r) = None /\ IsSome(InfoOf(new, r))) =>
                          /\ <<old.name, r>> \in Targets
                          /\ FlaggedStex(old)
    /\ bulk.pc = "running" => bulk'.documents = bulk.documents
    /\ bulk.pc = "idle" =>
          \A k \in DOMAIN bulk'.documents :
             LET x == bulk'.documents[k]
                 repo == archive_lookup[IndexOf(archive_lookup, x.name)]
             IN  FlaggedStex(repo) /\ InfoOf(repo, x.rel) = None

(* C24, as claimed: load_all_doc_infos writes only the cache slots of      *)
(* documents that were uncached at its start and belong to stex archives,  *)
(* every cached DocInfo stays the very same object, documents of non-stex  *)
(* archives are not analysed, and the registry's archive set and each      *)
(* archive's document key set are unchanged by the call.                   *)
C24_BulkLoadFrame ==
    [][BulkStep =>
          /\ ArchiveSetKept
          /\ SlotsFramed
          /\ \A i \in DOMAIN archive_lookup :
                KeySeq(archive_lookup'[i]) = KeySeq(archive_lookup[i])]_vars

(* C24, amended: as above, except that the document key set is unchanged   *)
(* only for the archives that are not stex archives and for those whose    *)
(* document map is enumerated and not empty; the start of the call         *)
(* enumerates the document map of every other stex archive, whose keys     *)
(* become the .tex files on disk at that moment, all uncached.             *)
C24_BulkLoadFrameEnumerating ==
    [][BulkStep =>
          /\ ArchiveSetKept
          /\ SlotsFramed
          /\ \A i \in DOMAIN archive_lookup :
                LET old == archive_lookup[i]
                    new == archive_lookup'[i]
                IN  IF bulk.pc = "idle" /\ FlaggedStex(old) /\ NotEnumerated(old)
                    THEN /\ KeySeq(new) = RelevantFiles(old.path)
                         /\ \A r \in Range(KeySeq(new)) : InfoOf(new, r) = None
                    ELSE /\ KeySeq(new) = KeySeq(old)
                         /\ IsSome(new.docs) = IsSome(old.docs)]_vars

\* a bulk load has returned True on a hub in which a document of an stex
\* archive was already cached and a non-stex archive's documents were
\* enumerated: the one kept its DocInfo, the others were not analysed
C24_Witness ==
    /\ BulkOutcome("True")
    /\ \E i \in DOMAIN archive_lookup :
          /\ archive_lookup[i].stex = "yes"
          /\ \E r \in Range(KeySeq(archive_lookup[i])) :
                /\ IsSome(InfoOf(archive_lookup[i], r))
                /\ <<archive_lookup[i].name, r>> \notin Targets
    /\ \E i \in DOMAIN archive_lookup :
          /\ archive_lookup[i].stex = "no"
          /\ \E r \in Range(KeySeq(archive_lookup[i])) : InfoOf(archive_lookup[i], r) = None

====
